---- MODULE Spec2Model ----
(***************************************************************************)
(* Model of the skykit-optimizer decision core: the inventory ledger       *)
(* (InventoryManager), the demand forecaster (DemandForecaster), the load  *)
(* planner (FlightLoader), the replenishment planner (PurchasingManager),  *)
(* the risk tracker (AdaptiveEngine) and the round loop (runGame).         *)
(*                                                                         *)
(* Quantities of kits are JavaScript numbers and become fractional when    *)
(* the load planner clamps a load to capacity * bufferPercent.  They are   *)
(* kept here as integers counted in 1/Unit of a kit; passenger counts,     *)
(* capacities and configuration limits are whole kits.  Buffer fractions   *)
(* are counted in 1/BufferScale and risk scores in 1/RiskScale.            *)
(***************************************************************************)
EXTENDS Integers, Sequences, FiniteSets, TLC

VARIABLES
    airports,            \* InventoryManager.airports: code -> Airport (reference data)
    aircraftTypes,       \* FlightLoader.aircraftTypes: type code -> Aircraft
    flightPlans,         \* DemandForecaster.flightPlans: sequence of FlightPlan
    airportStocks,       \* InventoryManager.airportStocks: code -> PerClassAmount (units)
    inFlightKits,        \* InventoryManager.inFlightKits: flightId -> InFlightKits
    processingKits,      \* InventoryManager.processingKits: sequence of ProcessingKits
    totalPurchased,      \* PurchasingManager.totalPurchased (units)
    airportPerformance,  \* AdaptiveEngine.airportPerformance: code -> AirportPerformance
    currentDay,          \* GameState.currentDay
    currentHour,         \* GameState.currentHour
    knownFlights,        \* GameState.knownFlights: flightId -> FlightEvent
    knownOrder,          \* insertion order of the knownFlights Map
    loadedFlights,       \* GameState.loadedFlights
    flightsReadyToDepart,\* GameState.flightsReadyToDepart
    pc,                  \* position of runGame / of the driver of a specification
    env,                 \* the external system: what it may still send
    locals,              \* runGame's locals: previousResponse, flightLoads, purchaseOrder
    last                 \* the last operation applied, its arguments and its result

vars == <<airports, aircraftTypes, flightPlans, airportStocks, inFlightKits,
          processingKits, totalPurchased, airportPerformance, currentDay,
          currentHour, knownFlights, knownOrder, loadedFlights,
          flightsReadyToDepart, pc, env, locals, last>>

refData == <<airports, aircraftTypes, flightPlans>>
ledgerVars == <<airportStocks, inFlightKits, processingKits>>
gameVars == <<currentDay, currentHour, knownFlights, knownOrder, loadedFlights,
              flightsReadyToDepart>>

-----------------------------------------------------------------------------
(* Number representation *)

Unit == 10000
BufferScale == 10000
RiskScale == 1000

Q(n) == n * Unit

Min2(a, b) == IF a <= b THEN a ELSE b
Max2(a, b) == IF a >= b THEN a ELSE b

RECURSIVE MinSeq(_)
MinSeq(s) == IF Len(s) = 1 THEN s[1] ELSE Min2(s[1], MinSeq(Tail(s)))

RECURSIVE MaxSeq(_)
MaxSeq(s) == IF Len(s) = 1 THEN s[1] ELSE Max2(s[1], MaxSeq(Tail(s)))

\* Math.floor / Math.ceil of a quantity in units, as a quantity in units
FloorU(x) == (x \div Unit) * Unit
CeilU(x) == -((-x) \div Unit) * Unit

-----------------------------------------------------------------------------
(* Shared types (types.ts) *)

KIT_CLASSES == <<"first", "business", "premiumEconomy", "economy">>
KitClasses == {KIT_CLASSES[i] : i \in 1..Len(KIT_CLASSES)}

PerClass(v) == [k \in KitClasses |-> v]

copyPerClass(source) == [k \in KitClasses |-> source[k]]

Has(map, key) == key \in DOMAIN map

MapSet(map, key, value) ==
    [x \in (DOMAIN map) \cup {key} |-> IF x = key THEN value ELSE map[x]]

MapDelete(map, key) == [x \in (DOMAIN map) \ {key} |-> map[x]]

EmptyMap == [x \in {} |-> 0]

-----------------------------------------------------------------------------
(* Inventory ledger (inventory.ts) *)

RECURSIVE SumInFlight(_, _, _, _)
SumInFlight(inflight, ids, airportCode, kitClass) ==
    IF ids = {} THEN 0
    ELSE LET id == CHOOSE x \in ids : TRUE
             rest == SumInFlight(inflight, ids \ {id}, airportCode, kitClass)
         IN  IF inflight[id].destinationAirport = airportCode
             THEN inflight[id].kits[kitClass] + rest
             ELSE rest

getInFlightKitsToAirport(inflight, airportCode, kitClass) ==
    SumInFlight(inflight, DOMAIN inflight, airportCode, kitClass)

RECURSIVE getProcessingKitsAtAirport(_, _, _)
getProcessingKitsAtAirport(processing, airportCode, kitClass) ==
    IF processing = <<>> THEN 0
    ELSE (IF Head(processing).airportCode = airportCode
          THEN Head(processing).kits[kitClass] ELSE 0)
         + getProcessingKitsAtAirport(Tail(processing), airportCode, kitClass)

trackInFlightKits(inflight, flightId, destinationAirport, kits, arrivalDay, arrivalHour) ==
    MapSet(inflight, flightId,
           [flightId |-> flightId,
            destinationAirport |-> destinationAirport,
            kits |-> copyPerClass(kits),
            arrivalDay |-> arrivalDay,
            arrivalHour |-> arrivalHour])

\* deductStock: [ok, stocks]
DeductGuardInclusive(have, amount) == have <= amount
DeductGuard(have, amount) == have < amount

deductStock(stocks, airportCode, kitClass, amount) ==
    IF ~Has(stocks, airportCode) THEN [ok |-> FALSE, stocks |-> stocks]
    ELSE IF DeductGuard(stocks[airportCode][kitClass], amount)
    THEN [ok |-> FALSE, stocks |-> stocks]
    ELSE [ok |-> TRUE,
          stocks |-> [stocks EXCEPT ![airportCode][kitClass] = @ - amount]]

\* The clamp of addStock: Math.min(amount, Math.max(0, capacity - stock))
ClampToCapacityUnclamped(amount, capacity, have) == amount
ClampToCapacity(amount, capacity, have) ==
    Min2(amount, Max2(0, Q(capacity) - have))

\* addStock: [added, stocks]
addStock(stocks, airportTable, airportCode, kitClass, amount) ==
    IF ~Has(stocks, airportCode) THEN [added |-> 0, stocks |-> stocks]
    ELSE IF Has(airportTable, airportCode)
    THEN LET toAdd == ClampToCapacity(amount,
                                      airportTable[airportCode].capacity[kitClass],
                                      stocks[airportCode][kitClass])
         IN  [added |-> toAdd,
              stocks |-> [stocks EXCEPT ![airportCode][kitClass] = @ + toAdd]]
    ELSE [added |-> amount,
          stocks |-> [stocks EXCEPT ![airportCode][kitClass] = @ + amount]]

\* The per-class fold of a batch into stock used by processReadyKits and by
\* processLandedFlight: stock += Math.max(0, Math.min(kits, capacity - stock))
FoldAmount(kits, capacity, have) == Max2(0, Min2(kits, Q(capacity) - have))

FoldBatch(stocks, airportTable, airportCode, kits) ==
    IF ~Has(stocks, airportCode) THEN stocks
    ELSE [stocks EXCEPT ![airportCode] =
            [k \in KitClasses |->
                IF Has(airportTable, airportCode)
                THEN @[k] + FoldAmount(kits[k], airportTable[airportCode].capacity[k], @[k])
                ELSE @[k] + kits[k]]]

isReady(processing, day, hour) ==
    (day > processing.readyDay)
    \/ (day = processing.readyDay /\ hour >= processing.readyHour)

\* processReadyKits: [stocks, processing], batches folded in queue order
RECURSIVE ProcessReadyLoop(_, _, _, _, _, _)
ProcessReadyLoop(queue, stocks, stillProcessing, airportTable, day, hour) ==
    IF queue = <<>> THEN [stocks |-> stocks, processing |-> stillProcessing]
    ELSE LET p == Head(queue)
         IN  IF isReady(p, day, hour)
             THEN ProcessReadyLoop(Tail(queue),
                                   FoldBatch(stocks, airportTable, p.airportCode, p.kits),
                                   stillProcessing, airportTable, day, hour)
             ELSE ProcessReadyLoop(Tail(queue), stocks, Append(stillProcessing, p),
                                   airportTable, day, hour)

ProcessReadyKeepAll(stocks, processing, airportTable, day, hour) ==
    [stocks |-> ProcessReadyLoop(processing, stocks, <<>>, airportTable, day, hour).stocks,
     processing |-> processing]

processReadyKits(stocks, processing, airportTable, day, hour) ==
    ProcessReadyLoop(processing, stocks, <<>>, airportTable, day, hour)

FirstClassProcessingTime(airport) == airport.processingTime["first"]

MaxProcessingTime(airport) ==
    MaxSeq(<<airport.processingTime["first"], airport.processingTime["business"],
             airport.processingTime["premiumEconomy"], airport.processingTime["economy"]>>)

\* ready time = arrival hour + max processing time, carried over 24h days
ReadyTime(arrival, maxProcessingTime) ==
    [day |-> arrival.day + ((arrival.hour + maxProcessingTime) \div 24),
     hour |-> (arrival.hour + maxProcessingTime) % 24]

FastPathHours == 2

\* processLandedFlight: [stocks, inflight, processing]
\* processLandedFlight without the delete of its last line
processLandedFlightKeepsBatch(stocks, inflight, processing, airportTable, event) ==
    IF ~Has(inflight, event.flightId)
    THEN [stocks |-> stocks, inflight |-> inflight, processing |-> processing]
    ELSE LET batch == inflight[event.flightId]
             dest == event.destinationAirport
             removed == inflight
         IN  IF Has(airportTable, dest)
             THEN LET airport == airportTable[dest]
                      maxT == MaxProcessingTime(airport)
                      ready == ReadyTime(event.arrival, maxT)
                  IN  IF airport.isHub \/ maxT <= FastPathHours
                      THEN [stocks |-> FoldBatch(stocks, airportTable, dest, batch.kits),
                            inflight |-> removed,
                            processing |-> processing]
                      ELSE [stocks |-> stocks,
                            inflight |-> removed,
                            processing |-> Append(processing,
                                [airportCode |-> dest,
                                 kits |-> copyPerClass(batch.kits),
                                 readyDay |-> ready.day,
                                 readyHour |-> ready.hour])]
             ELSE [stocks |-> FoldBatch(stocks, airportTable, dest, batch.kits),
                   inflight |-> removed,
                   processing |-> processing]

processLandedFlight(stocks, inflight, processing, airportTable, event) ==
    IF ~Has(inflight, event.flightId)
    THEN [stocks |-> stocks, inflight |-> inflight, processing |-> processing]
    ELSE LET batch == inflight[event.flightId]
             dest == event.destinationAirport
             removed == MapDelete(inflight, event.flightId)
         IN  IF Has(airportTable, dest)
             THEN LET airport == airportTable[dest]
                      maxT == MaxProcessingTime(airport)
                      ready == ReadyTime(event.arrival, maxT)
                  IN  IF airport.isHub \/ maxT <= FastPathHours
                      THEN [stocks |-> FoldBatch(stocks, airportTable, dest, batch.kits),
                            inflight |-> removed,
                            processing |-> processing]
                      ELSE [stocks |-> stocks,
                            inflight |-> removed,
                            processing |-> Append(processing,
                                [airportCode |-> dest,
                                 kits |-> copyPerClass(batch.kits),
                                 readyDay |-> ready.day,
                                 readyHour |-> ready.hour])]
             ELSE [stocks |-> FoldBatch(stocks, airportTable, dest, batch.kits),
                   inflight |-> removed,
                   processing |-> processing]

\* getInitialStocks (data/loader.ts): a copy of every airport's initialStock
getInitialStocks(airportTable) ==
    [code \in DOMAIN airportTable |->
        [k \in KitClasses |-> Q(airportTable[code].initialStock[k])]]

-----------------------------------------------------------------------------
(* Demand forecaster (forecasting.ts) *)

TypicalFirst == 10
TypicalBusiness == 50
TypicalPremiumEconomy == 25
TypicalEconomy == 250

getTypicalDemandEstimate(kitClass) ==
    CASE kitClass = "first" -> TypicalFirst
      [] kitClass = "business" -> TypicalBusiness
      [] kitClass = "premiumEconomy" -> TypicalPremiumEconomy
      [] kitClass = "economy" -> TypicalEconomy
      [] OTHER -> 0

\* departsInWindow && departsAfterNow of calculateDemandForAirport
DepartsInWindowExclusive(flight, day, hour, targetDay, targetHour) ==
    /\ (flight.departure.day < targetDay)
        \/ (flight.departure.day = targetDay /\ flight.departure.hour < targetHour)
    /\ (flight.departure.day > day)
        \/ (flight.departure.day = day /\ flight.departure.hour >= hour)

DepartsInWindow(flight, day, hour, targetDay, targetHour) ==
    /\ (flight.departure.day < targetDay)
        \/ (flight.departure.day = targetDay /\ flight.departure.hour <= targetHour)
    /\ (flight.departure.day > day)
        \/ (flight.departure.day = day /\ flight.departure.hour >= hour)

RECURSIVE KnownDemand(_, _, _, _, _, _, _, _)
KnownDemand(known, ids, airportCode, day, hour, targetDay, targetHour, kitClass) ==
    IF ids = {} THEN 0
    ELSE LET id == CHOOSE x \in ids : TRUE
             flight == known[id]
             rest == KnownDemand(known, ids \ {id}, airportCode, day, hour,
                                 targetDay, targetHour, kitClass)
         IN  IF flight.originAirport = airportCode
                /\ DepartsInWindow(flight, day, hour, targetDay, targetHour)
             THEN flight.passengers[kitClass] + rest
             ELSE rest

RECURSIVE PlansAtHour(_, _, _, _, _)
PlansAtHour(plans, airportCode, checkDay, checkHour, kitClass) ==
    IF plans = <<>> THEN 0
    ELSE LET plan == Head(plans)
             weekdayIndex == checkDay % 7
         IN  (IF plan.departCode = airportCode
                 /\ plan.scheduledHour = checkHour
                 /\ plan.weekdays[weekdayIndex + 1]
              THEN getTypicalDemandEstimate(kitClass) ELSE 0)
             + PlansAtHour(Tail(plans), airportCode, checkDay, checkHour, kitClass)

\* the hour loop over the flight plans, h = from .. to - 1, where hour h of
\* the loop is checkHour = (hour + h) % 24 of checkDay = day + (hour + h) / 24;
\* the sum is taken by halves to keep the evaluation shallow
RECURSIVE PlanLoop(_, _, _, _, _, _, _)
PlanLoop(plans, airportCode, day, hour, from, to, kitClass) ==
    IF to <= from THEN 0
    ELSE IF to = from + 1
    THEN PlansAtHour(plans, airportCode, day + ((hour + from) \div 24),
                     (hour + from) % 24, kitClass)
    ELSE PlanLoop(plans, airportCode, day, hour, from, (from + to) \div 2, kitClass)
         + PlanLoop(plans, airportCode, day, hour, (from + to) \div 2, to, kitClass)

\* calculateDemandForAirport, in whole kits
calculateDemandForAirport(plans, known, airportCode, day, hour, withinHours, kitClass) ==
    KnownDemand(known, DOMAIN known, airportCode, day, hour,
                day + ((hour + withinHours) \div 24), (hour + withinHours) % 24, kitClass)
    + PlanLoop(plans, airportCode, day, hour, 0, withinHours, kitClass)

RECURSIVE getFlightDistanceIn(_, _, _)
getFlightDistanceIn(plans, origin, destination) ==
    IF plans = <<>> THEN 0
    ELSE IF Head(plans).departCode = origin /\ Head(plans).arrivalCode = destination
    THEN Head(plans).distanceKm
    ELSE getFlightDistanceIn(Tail(plans), origin, destination)

getFlightDistance(plans, origin, destination) ==
    getFlightDistanceIn(plans, origin, destination)

-----------------------------------------------------------------------------
(* Risk tracker (adaptive.ts) *)

RiskThreshold == 700          \* 0.7
BufferFloor == 5000           \* 0.5
BufferCeiling == 9500         \* 0.95
bufferMultiplier == 1         \* AdaptiveEngine.bufferMultiplier = 1.0, never changed
economyBufferBoost == 0       \* AdaptiveEngine.economyBufferBoost = 0, never changed

\* getBufferPercent, in 1/BufferScale
getBufferPercentUnclamped(perf, destinationAirport, kitClass, baseBuffer) ==
    IF Has(perf, destinationAirport) /\ perf[destinationAirport].riskScore > RiskThreshold
    THEN baseBuffer - (perf[destinationAirport].riskScore - RiskThreshold)
    ELSE baseBuffer

getBufferPercent(perf, destinationAirport, kitClass, baseBuffer) ==
    LET b1 == baseBuffer * bufferMultiplier
        b2 == IF kitClass = "economy" THEN b1 - economyBufferBoost ELSE b1
        b3 == IF Has(perf, destinationAirport)
                 /\ perf[destinationAirport].riskScore > RiskThreshold
              THEN b2 - ((perf[destinationAirport].riskScore - RiskThreshold)
                         * (BufferScale \div (10 * RiskScale)))
              ELSE b2
    IN  Max2(BufferFloor, Min2(BufferCeiling, b3))

-----------------------------------------------------------------------------
(* Load planner (flightLoader.ts) *)

\* DEFAULT_LOADING_CONFIG (engine/types.ts)
SafetyBufferHub == 100
SafetyBufferSpoke == 20
DestinationForecastHours == 24
enableExtraLoadingToSpokes == TRUE
enableReturnToHub == TRUE

EarlyGameLastDay == 2         \* isEarlyGame = currentDay <= 2
LastDay == 29                 \* isLastDay = currentDay >= 29
NearEndDay == 15              \* isNearEnd = currentDay >= 15
EndGameDay == 27              \* isEndGame = currentDay >= 27
LastHour == 23
EarlyGameBufferMin == 500
DefaultAirportCapacity == 1000
MinRemainingHours == 12

\* The view of the engine a planner reads: S.stocks, S.inflight, S.processing,
\* S.airports, S.aircraft, S.plans, S.perf, S.known
View(stocks, inflight, processing, airportTable, aircraft, plans, perf, known) ==
    [stocks |-> stocks, inflight |-> inflight, processing |-> processing,
     airports |-> airportTable, aircraft |-> aircraft, plans |-> plans,
     perf |-> perf, known |-> known]

\* Cost figures are counted in 1/CostScale of a dollar
CostScale == 20000
DefaultLoadingCost == 40000       \* 2.0
DefaultProcessingCost == 80000    \* 4.0
DefaultFuelRate == 10             \* 0.001, in 1/10000 dollar per kg per km

\* calculateEconomyLoadFactorForFlight: the factor as a fraction num/den
calculateEconomyLoadFactorForFlight(S, flight) ==
    LET origin == flight.originAirport
        dest == flight.destinationAirport
        distance == getFlightDistance(S.plans, origin, dest)
        loadingCost == IF Has(S.airports, origin)
                       THEN S.airports[origin].loadingCost["economy"]
                       ELSE DefaultLoadingCost
        fuelRate == IF Has(S.aircraft, flight.aircraftType)
                    THEN S.aircraft[flight.aircraftType].costPerKgPerKm
                    ELSE DefaultFuelRate
        movementCost == distance * fuelRate * 3      \* distance * rate * 1.5
        processingCost == IF Has(S.airports, dest)
                          THEN S.airports[dest].processingCost["economy"]
                          ELSE DefaultProcessingCost
        totalCost == loadingCost + movementCost + processingCost
        penaltyPerKit == 3000 * distance             \* 0.003 * distance * 50
        \* economicOptimal = ratio >= 1 ? 1 : 0.5 + 0.5 * ratio, ratio = penalty / cost
        economicOptimal ==
            IF totalCost <= 0 \/ penaltyPerKit >= totalCost
            THEN [num |-> 1, den |-> 1]
            ELSE [num |-> totalCost + penaltyPerKit, den |-> 2 * totalCost]
    IN  IF ~Has(S.stocks, dest) \/ ~Has(S.airports, dest)
        THEN [num |-> economicOptimal.num * 7, den |-> economicOptimal.den * 10]
        ELSE LET destCapacity == Q(S.airports[dest].capacity["economy"])
                 destTotal == S.stocks[dest]["economy"]
                              + getInFlightKitsToAirport(S.inflight, dest, "economy")
             IN  \* occupancy = destTotal / destCapacity (1.0 when capacity is 0);
                 \* above 0.6 both branches are the line 1 - occupancy / 2,
                 \* clamped to [0.5, 0.7]
                 IF destCapacity <= 0 THEN [num |-> 1, den |-> 2]
                 ELSE IF 5 * destTotal <= 3 * destCapacity THEN [num |-> 7, den |-> 10]
                 ELSE IF destTotal >= destCapacity THEN [num |-> 1, den |-> 2]
                 ELSE [num |-> 2 * destCapacity - destTotal, den |-> 2 * destCapacity]

\* Base buffer fraction of the destination-room clamp, in 1/BufferScale
BaseBuffer(destinationAirport, kitClass) ==
    IF destinationAirport = "HUB1" THEN 9500
    ELSE IF kitClass = "economy" THEN 7000
    ELSE IF kitClass = "premiumEconomy" THEN 8000
    ELSE 8500

\* capacity (kits) * fraction (1/BufferScale), in units
CapTimesBuffer(capacity, bufferPercent) ==
    capacity * bufferPercent * (Unit \div BufferScale)

\* capacity (kits) * percent / 100, in units
CapTimesPercent(capacity, percent) == capacity * percent * (Unit \div 100)

\* available = Math.max(0, rawAvailable - safetyBuffer)
AvailableUnfloored(rawAvailable, safetyBuffer) == rawAvailable - Q(safetyBuffer)
Available(rawAvailable, safetyBuffer) == Max2(0, rawAvailable - Q(safetyBuffer))

\* calculateExtraKitsForDestination
calculateExtraKitsForDestination(S, flight, kitClass, alreadyLoaded, available, capacity, day, hour) ==
    LET dest == flight.destinationAirport
    IN  IF ~Has(S.stocks, dest) \/ ~Has(S.airports, dest) THEN 0
        ELSE
        LET remainingHours == Max2(0, (LastDay - day) * 24 + (LastHour - hour))
            forecastHours == Min2(DestinationForecastHours, remainingHours)
            destDemand == Q(calculateDemandForAirport(S.plans, S.known, dest, day, hour,
                                                      forecastHours, kitClass))
            destCurrent == S.stocks[dest][kitClass]
            inFlightToDestination == getInFlightKitsToAirport(S.inflight, dest, kitClass)
            processingAtDest == getProcessingKitsAtAirport(S.processing, dest, kitClass)
            destExpected == destCurrent + inFlightToDestination + processingAtDest
            destDeficit == Max2(0, destDemand - destExpected)
            destCapacity == S.airports[dest].capacity[kitClass]
            totalAtDest == destCurrent + inFlightToDestination + processingAtDest
            destRoom == Max2(0, Q(destCapacity) - totalAtDest)
            isPE == kitClass = "premiumEconomy"
            saturationThreshold == IF isPE THEN 75 ELSE 85
            roomCheckThreshold == IF isPE THEN 30 ELSE 20
            maxExtraPercent == IF isPE THEN 2 ELSE 5
            remainingCapacity == capacity - alreadyLoaded
            remainingStock == available - alreadyLoaded
            maxExtraByCapacity == Q((destCapacity * maxExtraPercent) \div 100)
            maxExtraByRoom == FloorU((destRoom * 3) \div 10)
        IN  IF remainingHours < MinRemainingHours THEN 0
            ELSE IF kitClass = "economy" THEN 0
            ELSE IF totalAtDest > CapTimesPercent(destCapacity, saturationThreshold) THEN 0
            ELSE IF destRoom < CapTimesPercent(destCapacity, roomCheckThreshold) THEN 0
            ELSE MinSeq(<<destDeficit, maxExtraByCapacity, maxExtraByRoom, destRoom,
                          remainingCapacity, remainingStock>>)

\* hubRoom of calculateExtraKitsForHubReturn
HubRoomLessLoaded(hubCapacity, hubExpected, alreadyLoaded) ==
    Max2(0, Q(hubCapacity) - hubExpected - alreadyLoaded)
HubRoom(hubCapacity, hubExpected, alreadyLoaded) ==
    Max2(0, Q(hubCapacity) - hubExpected)

\* calculateExtraKitsForHubReturn
calculateExtraKitsForHubReturn(S, flight, kitClass, alreadyLoaded, available, capacity, day, hour, isEndGame) ==
    IF ~Has(S.stocks, "HUB1") \/ ~Has(S.airports, "HUB1") THEN 0
    ELSE
    LET hubCurrentStock == S.stocks["HUB1"][kitClass]
        hubCapacity == S.airports["HUB1"].capacity[kitClass]
        hubInFlight == getInFlightKitsToAirport(S.inflight, "HUB1", kitClass)
        hubProcessing == getProcessingKitsAtAirport(S.processing, "HUB1", kitClass)
        hubExpected == hubCurrentStock + hubInFlight + hubProcessing
        hubRoom == HubRoom(hubCapacity, hubExpected, alreadyLoaded)
        remainingCapacity == capacity - alreadyLoaded
    IN  IF isEndGame
        THEN MinSeq(<<remainingCapacity, available - alreadyLoaded, hubRoom>>)
        ELSE LET upcomingDemand ==
                     Q(calculateDemandForAirport(S.plans, S.known, flight.originAirport,
                                                 day, hour, DestinationForecastHours,
                                                 kitClass))
                 currentStock == available - alreadyLoaded
                 surplus == Max2(0, currentStock - upcomingDemand)
             IN  IF surplus > 0 /\ hubRoom > 0
                 THEN MinSeq(<<remainingCapacity, surplus, hubRoom>>)
                 ELSE 0

\* demand = Math.floor(rawDemand * LOAD_FACTOR[kitClass]), in units
ApplyLoadFactor(rawDemand, factor) == Q((rawDemand * factor.num) \div factor.den)

Demand(S, flight, kitClass) ==
    IF kitClass = "economy"
    THEN ApplyLoadFactor(flight.passengers[kitClass],
                         calculateEconomyLoadFactorForFlight(S, flight))
    ELSE Q(flight.passengers[kitClass])

SafetyBufferOfSpoke(S, origin, kitClass, isEarlyGame) == SafetyBufferSpoke

\* safetyBuffer of the origin, whole kits; the configured buffers are absolute
\* (>= 1), so isPercentage is false
SafetyBuffer(S, origin, kitClass, isEarlyGame) ==
    IF origin = "HUB1" /\ isEarlyGame
    THEN Max2(EarlyGameBufferMin,
              ((IF Has(S.airports, origin) THEN S.airports[origin].capacity[kitClass]
                ELSE DefaultAirportCapacity) * 5) \div 100)
    ELSE IF origin = "HUB1" THEN SafetyBufferHub ELSE SafetyBufferSpoke

OriginAvailableNoBuffer(S, flight, kitClass, isEarlyGame) ==
    S.stocks[flight.originAirport][kitClass]

OriginAvailable(S, flight, kitClass, isEarlyGame) ==
    Available(S.stocks[flight.originAirport][kitClass],
              SafetyBuffer(S, flight.originAirport, kitClass, isEarlyGame))

\* destRoom = Math.max(0, destCapacity * bufferPercent - destTotal)
DestRoom(S, dest, kitClass) ==
    Max2(0, CapTimesBuffer(S.airports[dest].capacity[kitClass],
                           getBufferPercent(S.perf, dest, kitClass,
                                            BaseBuffer(dest, kitClass)))
            - (S.stocks[dest][kitClass]
               + getInFlightKitsToAirport(S.inflight, dest, kitClass)))

ClampToRoom(toLoad, destRoom) == IF toLoad > destRoom THEN Max2(0, destRoom) ELSE toLoad

\* FIX 14: the destination capacity check
ClampToDestination(S, flight, kitClass, toLoad) ==
    IF Has(S.stocks, flight.destinationAirport) /\ Has(S.airports, flight.destinationAirport)
    THEN ClampToRoom(toLoad, DestRoom(S, flight.destinationAirport, kitClass))
    ELSE toLoad

\* extra kits for a spoke destination
AddExtraToSpoke(S, flight, kitClass, toLoad, available, capacity, day, hour, isNearEnd) ==
    IF enableExtraLoadingToSpokes /\ flight.originAirport = "HUB1" /\ toLoad < capacity
       /\ available > toLoad /\ ~isNearEnd
    THEN toLoad + calculateExtraKitsForDestination(S, flight, kitClass, toLoad,
                                                   available, capacity, day, hour)
    ELSE toLoad

AddReturnAllAvailable(S, flight, kitClass, toLoad, available, capacity, day, hour, isEndGame) ==
    IF flight.destinationAirport = "HUB1" /\ available > toLoad THEN available ELSE toLoad

\* extra kits returned to the hub
AddReturnToHub(S, flight, kitClass, toLoad, available, capacity, day, hour, isEndGame) ==
    IF enableReturnToHub /\ flight.destinationAirport = "HUB1" /\ toLoad < capacity
       /\ available > toLoad
    THEN toLoad + calculateExtraKitsForHubReturn(S, flight, kitClass, toLoad,
                                                 available, capacity, day, hour, isEndGame)
    ELSE toLoad

\* the final clamps: never above the raw available stock
FinalClamp(toLoad, rawAvailable) ==
    Min2(IF toLoad > rawAvailable THEN Max2(0, rawAvailable) ELSE toLoad, rawAvailable)

\* the part of calculateKitsToLoad after the destination capacity check
LoadFromBase(S, flight, kitClass, capacity, day, hour, flags, toLoad, available, rawAvailable) ==
    IF flags.isLastDay THEN Min2(toLoad, rawAvailable)
    ELSE IF flags.isEarlyGame /\ flight.originAirport = "HUB1"
    THEN Min2(toLoad, rawAvailable)
    ELSE FinalClamp(
            AddReturnToHub(S, flight, kitClass,
                AddExtraToSpoke(S, flight, kitClass, toLoad, available, capacity,
                                day, hour, flags.isNearEnd),
                available, capacity, day, hour, flags.isEndGame),
            rawAvailable)

\* calculateKitsToLoad: the load of one class, in units.  S.stocks is the
\* live stock, so originStock[kitClass] is S.stocks[origin][kitClass].
calculateKitsToLoad(S, flight, kitClass, aircraft, day, hour, flags) ==
    LoadFromBase(S, flight, kitClass, Q(aircraft.kitCapacity[kitClass]), day, hour, flags,
        ClampToDestination(S, flight, kitClass,
            MinSeq(<<Demand(S, flight, kitClass),
                     OriginAvailable(S, flight, kitClass, flags.isEarlyGame),
                     Q(aircraft.kitCapacity[kitClass])>>)),
        OriginAvailable(S, flight, kitClass, flags.isEarlyGame),
        S.stocks[flight.originAirport][kitClass])

\* one class of calculateSingleFlightLoad: deductStock(origin, kitClass, toLoad)
Deducted(acc, kitClass, toLoad, d) ==
    [loaded |-> [acc.loaded EXCEPT ![kitClass] = toLoad],
     stocks |-> d.stocks,
     rejected |-> IF d.ok THEN acc.rejected ELSE acc.rejected \cup {kitClass}]

LoadClass(acc, flight, kitClass, toLoad) ==
    Deducted(acc, kitClass, toLoad,
             deductStock(acc.stocks, flight.originAirport, kitClass, toLoad))

\* The class loop of calculateSingleFlightLoad: [loaded, stocks, rejected]
RECURSIVE LoadClasses(_, _, _, _, _, _, _, _)
LoadClasses(i, S, flight, aircraft, day, hour, flags, acc) ==
    IF i > Len(KIT_CLASSES) THEN acc
    ELSE LoadClasses(i + 1, S, flight, aircraft, day, hour, flags,
            LoadClass(acc, flight, KIT_CLASSES[i],
                calculateKitsToLoad([S EXCEPT !.stocks = acc.stocks], flight,
                                    KIT_CLASSES[i], aircraft, day, hour, flags)))

Tracked(S, flight, r) ==
    [load |-> [flightId |-> flight.flightId, loadedKits |-> r.loaded],
     stocks |-> r.stocks,
     inflight |-> trackInFlightKits(S.inflight, flight.flightId,
                                    flight.destinationAirport, r.loaded,
                                    flight.arrival.day, flight.arrival.hour),
     rejected |-> r.rejected]

\* calculateSingleFlightLoad: [load, stocks, inflight, rejected]
calculateSingleFlightLoad(S, flight, day, hour, flags) ==
    IF ~Has(S.stocks, flight.originAirport) \/ ~Has(S.aircraft, flight.aircraftType)
    THEN [load |-> [flightId |-> flight.flightId, loadedKits |-> PerClass(0)],
          stocks |-> S.stocks, inflight |-> S.inflight, rejected |-> {}]
    ELSE Tracked(S, flight,
                 LoadClasses(1, S, flight, S.aircraft[flight.aircraftType], day, hour,
                             flags,
                             [loaded |-> PerClass(0), stocks |-> S.stocks,
                              rejected |-> {}]))

\* calculatePenaltyExposure, in 1/1000
calculatePenaltyExposure(S, flight) ==
    LET distance == getFlightDistance(S.plans, flight.originAirport,
                                      flight.destinationAirport)
    IN  flight.passengers["first"] * distance * 10
        + flight.passengers["business"] * distance * 6
        + flight.passengers["premiumEconomy"] * distance * 4
        + flight.passengers["economy"] * distance * 3

\* the comparator of sortFlightsByPriority: < 0 when a goes before b
ComparePriority(S, a, b) ==
    IF a.originAirport = "HUB1" /\ b.originAirport # "HUB1" THEN -1
    ELSE IF b.originAirport = "HUB1" /\ a.originAirport # "HUB1" THEN 1
    ELSE calculatePenaltyExposure(S, b) - calculatePenaltyExposure(S, a)

\* Array.prototype.sort is stable: insertion after the last element that
\* does not compare greater
RECURSIVE InsertByPriority(_, _, _)
InsertByPriority(S, sorted, f) ==
    IF sorted = <<>> THEN <<f>>
    ELSE IF ComparePriority(S, f, Head(sorted)) < 0 THEN <<f>> \o sorted
    ELSE <<Head(sorted)>> \o InsertByPriority(S, Tail(sorted), f)

RECURSIVE SortLoop(_, _, _)
SortLoop(S, flights, sorted) ==
    IF flights = <<>> THEN sorted
    ELSE SortLoop(S, Tail(flights), InsertByPriority(S, sorted, Head(flights)))

KeepGivenOrder(S, flights) == flights
sortFlightsByPriority(S, flights) == SortLoop(S, flights, <<>>)

FlagsWithoutLastDay(day) ==
    [isEarlyGame |-> day <= EarlyGameLastDay,
     isLastDay |-> FALSE,
     isNearEnd |-> day >= NearEndDay,
     isEndGame |-> day >= EndGameDay]

Flags(day) ==
    [isEarlyGame |-> day <= EarlyGameLastDay,
     isLastDay |-> day >= LastDay,
     isNearEnd |-> day >= NearEndDay,
     isEndGame |-> day >= EndGameDay]

\* calculateFlightLoads: [loads, stocks, inflight, rejected]
LoadedUnlessEmpty(acc, flight, r) ==
    [loads |-> IF \A k \in KitClasses : r.load.loadedKits[k] = 0
               THEN acc.loads ELSE Append(acc.loads, r.load),
     stocks |-> r.stocks,
     inflight |-> r.inflight,
     rejected |-> acc.rejected \cup {<<flight.flightId, k>> : k \in r.rejected}]

Loaded(acc, flight, r) ==
    [loads |-> Append(acc.loads, r.load),
     stocks |-> r.stocks,
     inflight |-> r.inflight,
     rejected |-> acc.rejected \cup {<<flight.flightId, k>> : k \in r.rejected}]

RECURSIVE LoadFlights(_, _, _, _, _)
LoadFlights(S, flights, day, hour, acc) ==
    IF flights = <<>> THEN acc
    ELSE LoadFlights(S, Tail(flights), day, hour,
            Loaded(acc, Head(flights),
                   calculateSingleFlightLoad(
                       [S EXCEPT !.stocks = acc.stocks, !.inflight = acc.inflight],
                       Head(flights), day, hour, Flags(day))))

calculateFlightLoads(S, ready, day, hour) ==
    LoadFlights(S, sortFlightsByPriority(S, ready), day, hour,
                [loads |-> <<>>, stocks |-> S.stocks, inflight |-> S.inflight,
                 rejected |-> {}])

-----------------------------------------------------------------------------
(* Replenishment planner (purchasing.ts) *)

\* DEFAULT_PURCHASE_CONFIG (engine/types.ts), whole kits
thresholds ==
    [first |-> 1800, business |-> 6000, premiumEconomy |-> 4000, economy |-> 70000]
emergencyThresholds ==
    [first |-> 400, business |-> 2000, premiumEconomy |-> 400, economy |-> 10000]
maxPerOrder ==
    [first |-> 1000, business |-> 3000, premiumEconomy |-> 1000, economy |-> 15000]
maxTotalPurchase ==
    [first |-> 50000, business |-> 100000, premiumEconomy |-> 30000, economy |-> 200000]
apiLimits ==
    [first |-> 42000, business |-> 42000, premiumEconomy |-> 3000, economy |-> 42000]
purchaseInterval == 6
EarlyPurchaseInterval == 2    \* currentDay < 2 ? 2 : purchaseInterval
demandBuffer == 1             \* 1.0
forecastHours == 48
LEAD_TIMES == [first |-> 48, business |-> 36, premiumEconomy |-> 24, economy |-> 12]
BurstWindow == 12
MinRegularOrder == 100        \* toPurchase > 100
purchaseMultiplier == 1       \* AdaptiveEngine.getPurchaseMultiplier returns 1.0

hoursRemainingAt(day, hour) == (LastDay - day) * 24 + (LastHour - hour)

\* maxRoom = Math.max(0, capacity - totalExpected)
MaxRoomIgnoringExpected(capacity, totalExpected) == Q(capacity)
MaxRoom(capacity, totalExpected) == Max2(0, Q(capacity) - totalExpected)

\* totalExpected = currentStock + inFlight + processing + alreadyPurchased
TotalExpected(S, purchased, kitClass) ==
    S.stocks["HUB1"][kitClass]
    + getInFlightKitsToAirport(S.inflight, "HUB1", kitClass)
    + getProcessingKitsAtAirport(S.processing, "HUB1", kitClass)
    + purchased[kitClass]

\* maxToBuy = maxTotalPurchase - this.totalPurchased[kitClass]
MaxToBuyWholeBudget(kitClass, purchased) == Q(maxTotalPurchase[kitClass])
MaxToBuy(kitClass, purchased) == Q(maxTotalPurchase[kitClass]) - purchased[kitClass]

\* calculatePurchaseForClass: [amount, mode]; amount in units
calculatePurchaseForClass(S, purchased, kitClass, day, hour) ==
    IF ~Has(S.airports, "HUB1") THEN [amount |-> 0, mode |-> "none"]
    ELSE
    LET currentStock == S.stocks["HUB1"][kitClass]
        totalExpected == TotalExpected(S, purchased, kitClass)
        capacity == S.airports["HUB1"].capacity[kitClass]
        maxRoom == MaxRoom(capacity, totalExpected)
        threshold == thresholds[kitClass]
        emergencyThreshold == emergencyThresholds[kitClass]
        maxToBuy == MaxToBuy(kitClass, purchased)
        apiLimit == Q(apiLimits[kitClass])
        adjustedMaxPerOrder == Q(maxPerOrder[kitClass] * purchaseMultiplier)
        hoursRemaining == hoursRemainingAt(day, hour)
        leadTime == LEAD_TIMES[kitClass]
        isNearDeadline == hoursRemaining >= leadTime
                          /\ hoursRemaining <= leadTime + BurstWindow
        burstAmount == MinSeq(<<adjustedMaxPerOrder * 2, maxToBuy, apiLimit, maxRoom>>)
        isEarlyGame == day <= EarlyGameLastDay
        earlyGameAmount == MinSeq(<<adjustedMaxPerOrder, maxToBuy, apiLimit, maxRoom>>)
        adjustedThreshold == Q(threshold * purchaseMultiplier)
        emergencyAmount == MinSeq(<<adjustedThreshold, maxToBuy, apiLimit, maxRoom>>)
        interval == IF day < 2 THEN EarlyPurchaseInterval ELSE purchaseInterval
        demand == Q(calculateDemandForAirport(S.plans, S.known, "HUB1", day, hour,
                                              forecastHours, kitClass))
        baseDeficit == Max2(0, demand * demandBuffer - totalExpected)
        deficit == CeilU(baseDeficit * purchaseMultiplier)
        toPurchase == MinSeq(<<deficit, adjustedMaxPerOrder, maxToBuy, apiLimit, maxRoom>>)
    IN  IF maxRoom <= 0 THEN [amount |-> 0, mode |-> "noRoom"]
        ELSE IF isNearDeadline /\ burstAmount > 0
        THEN [amount |-> burstAmount, mode |-> "burst"]
        ELSE IF isEarlyGame /\ 2 * currentStock < Q(capacity) /\ earlyGameAmount > 0
        THEN [amount |-> earlyGameAmount, mode |-> "earlyGame"]
        ELSE IF currentStock < Q(emergencyThreshold)
        THEN IF emergencyAmount > 0
             THEN [amount |-> emergencyAmount, mode |-> "emergency"]
             ELSE [amount |-> 0, mode |-> "emergencyNone"]
        ELSE IF hour % interval # 0 THEN [amount |-> 0, mode |-> "offInterval"]
        ELSE IF totalExpected >= Q(threshold) THEN [amount |-> 0, mode |-> "aboveThreshold"]
        ELSE IF toPurchase > Q(MinRegularOrder)
        THEN [amount |-> toPurchase, mode |-> "regular"]
        ELSE [amount |-> 0, mode |-> "regularNone"]

\* calculatePurchaseOrder: [order, any, purchased, modes]; order is undefined
\* (any = FALSE) when no class is ordered
RECURSIVE PurchaseClasses(_, _, _, _, _)
PurchaseClasses(i, S, day, hour, acc) ==
    IF i > Len(KIT_CLASSES) THEN acc
    ELSE LET kitClass == KIT_CLASSES[i]
         IN  IF hoursRemainingAt(day, hour) < LEAD_TIMES[kitClass]
             THEN PurchaseClasses(i + 1, S, day, hour,
                                  [acc EXCEPT !.modes[kitClass] = "tooLate"])
             ELSE LET r == calculatePurchaseForClass(S, acc.purchased, kitClass, day, hour)
                  IN  PurchaseClasses(i + 1, S, day, hour,
                        IF r.amount > 0
                        THEN [order |-> [acc.order EXCEPT ![kitClass] = r.amount],
                              any |-> TRUE,
                              purchased |-> [acc.purchased EXCEPT ![kitClass] = @ + r.amount],
                              modes |-> [acc.modes EXCEPT ![kitClass] = r.mode]]
                        ELSE [acc EXCEPT !.modes[kitClass] = r.mode])

calculatePurchaseOrder(S, purchased, day, hour) ==
    IF ~Has(S.stocks, "HUB1") \/ ~Has(S.airports, "HUB1")
    THEN [order |-> PerClass(0), any |-> FALSE, purchased |-> purchased,
          modes |-> PerClass("none")]
    ELSE PurchaseClasses(1, S, day, hour,
                         [order |-> PerClass(0), any |-> FALSE, purchased |-> purchased,
                          modes |-> PerClass("none")])

\* applyPurchasedKits: the stocks after addStock('HUB1', kitClass, order[kitClass])
RECURSIVE ApplyClasses(_, _, _, _)
ApplyClasses(i, stocks, airportTable, order) ==
    IF i > Len(KIT_CLASSES) THEN stocks
    ELSE LET kitClass == KIT_CLASSES[i]
         IN  ApplyClasses(i + 1,
                          IF order[kitClass] > 0
                          THEN addStock(stocks, airportTable, "HUB1", kitClass,
                                        order[kitClass]).stocks
                          ELSE stocks,
                          airportTable, order)

applyPurchasedKits(stocks, airportTable, order) ==
    IF ~Has(stocks, "HUB1") \/ ~Has(airportTable, "HUB1") THEN stocks
    ELSE ApplyClasses(1, stocks, airportTable, order)

-----------------------------------------------------------------------------
(* Risk tracker updates (adaptive.ts) *)

InitialRisk == 500            \* 0.5
OverflowStep == 100           \* + 0.1
UnfulfilledStep == 20         \* - 0.02
RiskCeiling == 1000           \* Math.min(1.0, ...)
RiskFloor == 100              \* Math.max(0.1, ...)
DecayPercent == 99            \* riskScore *= 0.99

classifyPenalty(code) ==
    IF code = "INVENTORY_EXCEEDS_CAPACITY" THEN "INVENTORY_EXCEEDS_CAPACITY"
    ELSE IF code = "NEGATIVE_INVENTORY" THEN "NEGATIVE_INVENTORY"
    ELSE "FLIGHT_UNFULFILLED"

\* riskScore *= 0.99, rounded down to 1/RiskScale
Decay(riskScore) == (riskScore * DecayPercent) \div 100

\* perf.riskScore = Math.min(1.0, perf.riskScore + 0.1)
RaisedRiskUncapped(riskScore) == riskScore + OverflowStep
RaisedRisk(riskScore) == Min2(RiskCeiling, riskScore + OverflowStep)

\* updateAirportPerformance
updateAirportPerformance(perf, record) ==
    LET code == record.airportCode
        old == IF Has(perf, code) THEN perf[code]
               ELSE [overflowCount |-> 0, unfulfilledCount |-> 0,
                     lastOverflowDay |-> -1, riskScore |-> InitialRisk]
        upd == IF record.type = "INVENTORY_EXCEEDS_CAPACITY"
               THEN [old EXCEPT !.overflowCount = @ + 1,
                                !.lastOverflowDay = record.day,
                                !.riskScore = RaisedRisk(@)]
               ELSE IF record.type = "FLIGHT_UNFULFILLED"
               THEN [old EXCEPT !.unfulfilledCount = @ + 1,
                                !.riskScore = Max2(RiskFloor, @ - UnfulfilledStep)]
               ELSE old
    IN  MapSet(perf, code, [upd EXCEPT !.riskScore = Decay(@)])

\* recordPenalties: penalties is a sequence of [code, airportCode]; airportCode
\* is "" when the reason text names no airport
RECURSIVE recordPenalties(_, _, _, _)
recordPenalties(perf, penalties, day, hour) ==
    IF penalties = <<>> THEN perf
    ELSE LET p == Head(penalties)
             record == [day |-> day, hour |-> hour, type |-> classifyPenalty(p.code),
                        airportCode |-> p.airportCode]
         IN  recordPenalties(IF record.airportCode # ""
                             THEN updateAirportPerformance(perf, record)
                             ELSE perf,
                             Tail(penalties), day, hour)

-----------------------------------------------------------------------------
(* GameState (engine/state.ts) *)

AbsHour(t) == t.day * 24 + t.hour

\* the flights setTime puts in flightsReadyToDepart, in Map order
IsDueExactOnly(flight, day, hour, loaded) ==
    /\ flight.eventType \in {"CHECKED_IN", "SCHEDULED"}
    /\ flight.departure.day = day /\ flight.departure.hour = hour

IsDue(flight, day, hour, loaded) ==
    /\ flight.eventType \in {"CHECKED_IN", "SCHEDULED"}
    /\ \/ (flight.departure.day = day /\ flight.departure.hour = hour)
       \/ (AbsHour(flight.departure) < day * 24 + hour
           /\ flight.flightId \notin loaded)

RECURSIVE ReadyFlights(_, _, _, _, _)
ReadyFlights(known, order, day, hour, loaded) ==
    IF order = <<>> THEN <<>>
    ELSE (IF IsDue(known[Head(order)], day, hour, loaded)
          THEN <<known[Head(order)]>> ELSE <<>>)
         \o ReadyFlights(known, Tail(order), day, hour, loaded)

\* processFlightUpdates: [known, order, stocks, inflight, processing]
RECURSIVE processFlightUpdates(_, _)
processFlightUpdates(G, updates) ==
    IF updates = <<>> THEN G
    ELSE LET event == Head(updates)
             landed == IF event.eventType = "LANDED"
                       THEN processLandedFlight(G.stocks, G.inflight, G.processing,
                                                G.airports, event)
                       ELSE [stocks |-> G.stocks, inflight |-> G.inflight,
                             processing |-> G.processing]
         IN  processFlightUpdates(
                [G EXCEPT !.known = MapSet(G.known, event.flightId, event),
                          !.order = IF Has(G.known, event.flightId) THEN G.order
                                    ELSE Append(G.order, event.flightId),
                          !.stocks = landed.stocks,
                          !.inflight = landed.inflight,
                          !.processing = landed.processing],
                Tail(updates))

-----------------------------------------------------------------------------
(* Reference data and events used by the specifications *)

Airport(isHub, capacity, processingTime, initialStock) ==
    [isHub |-> isHub, capacity |-> capacity, processingTime |-> processingTime,
     initialStock |-> initialStock,
     loadingCost |-> PerClass(DefaultLoadingCost),
     processingCost |-> PerClass(DefaultProcessingCost)]

Time(day, hour) == [day |-> day, hour |-> hour]

FlightEvent(eventType, flightId, origin, destination, departure, arrival, passengers) ==
    [eventType |-> eventType, flightId |-> flightId, flightNumber |-> flightId,
     originAirport |-> origin, destinationAirport |-> destination,
     departure |-> departure, arrival |-> arrival, passengers |-> passengers,
     aircraftType |-> "A320", distance |-> 0]

\* a penalty of a response: its code and the airport its reason text names
Penalty(code, airportCode) == [code |-> code, airportCode |-> airportCode]

NoPerformance == EmptyMap

\* a response variable that is null
NoResponse == [present |-> FALSE, flightUpdates |-> <<>>, penalties |-> <<>>]

\* previousResponse = lastResponse = null, no loads and no order computed yet
NoLocals ==
    [previousResponse |-> NoResponse,
     lastResponse |-> NoResponse,
     result |-> NoResponse,
     flightLoads |-> <<>>,
     purchaseOrder |-> [any |-> FALSE, order |-> PerClass(0)]]

-----------------------------------------------------------------------------
(* SpecLedger: the inventory ledger driven by arbitrary calls *)

MaxLedgerOps == 4

LedgerAirports ==
    [HUB1 |-> Airport(TRUE, PerClass(100), PerClass(6), PerClass(60)),
     SPK1 |-> Airport(FALSE, PerClass(50),
                      [first |-> 3, business |-> 2, premiumEconomy |-> 4, economy |-> 5],
                      PerClass(20)),
     SPK2 |-> Airport(FALSE, PerClass(40),
                      [first |-> 1, business |-> 1, premiumEconomy |-> 2, economy |-> 2],
                      PerClass(35))]

LedgerClasses == {"first", "economy"}
LedgerAmounts == {Q(25)}
LedgerKits == {PerClass(Q(15)), [PerClass(0) EXCEPT !["economy"] = Q(45)]}
LedgerTimes == {Time(0, 22), Time(1, 3)}
LedgerFlights == [L1 |-> "SPK1", L2 |-> "HUB1", L3 |-> "SPK2"]

\* the record of an operation: its name, time arguments and result, the number
\* of in-process batches it folded, and the operation before it
Did(op, day, hour, ok, folded) ==
    [op |-> op, n |-> last.n + 1, day |-> day, hour |-> hour, ok |-> ok,
     folded |-> folded,
     prev |-> [op |-> last.op, day |-> last.day, hour |-> last.hour,
               folded |-> last.folded]]

InitLedger ==
    /\ airports = LedgerAirports
    /\ aircraftTypes = EmptyMap
    /\ flightPlans = <<>>
    /\ airportStocks = getInitialStocks(LedgerAirports)
    /\ inFlightKits = EmptyMap
    /\ processingKits = <<>>
    /\ totalPurchased = PerClass(0)
    /\ airportPerformance = NoPerformance
    /\ currentDay = 0
    /\ currentHour = 0
    /\ knownFlights = EmptyMap
    /\ knownOrder = <<>>
    /\ loadedFlights = {}
    /\ flightsReadyToDepart = <<>>
    /\ pc = "ledger"
    /\ env = "none"
    /\ locals = NoLocals
    /\ last = [op |-> "init", n |-> 0, day |-> 0, hour |-> 0, ok |-> TRUE, folded |-> 0,
               prev |-> [op |-> "none", day |-> 0, hour |-> 0, folded |-> 0]]

LedgerFrame == UNCHANGED <<refData, totalPurchased, airportPerformance, knownFlights,
                           knownOrder, loadedFlights, flightsReadyToDepart, pc, env, locals>>

\* the arguments of deductStock: also an airport the ledger has no stock for,
\* and an amount equal to a stock on hand
DeductCodes == {"HUB1", "SPK1", "SPK9"}
DeductClasses == {"first"}
DeductAmounts == {Q(20)}

LedgerDeductStock ==
    \E code \in DeductCodes, kitClass \in DeductClasses, amount \in DeductAmounts :
        LET r == deductStock(airportStocks, code, kitClass, amount)
        IN  /\ last.n < MaxLedgerOps
            /\ airportStocks' = r.stocks
            /\ last' = [op |-> "deductStock", n |-> last.n + 1, day |-> currentDay,
                        hour |-> currentHour, ok |-> r.ok, folded |-> 0,
                        prev |-> [op |-> last.op, day |-> last.day, hour |-> last.hour,
                                  folded |-> last.folded],
                        args |-> [code |-> code, kitClass |-> kitClass,
                                  amount |-> amount]]
            /\ UNCHANGED <<inFlightKits, processingKits, currentDay, currentHour>>
            /\ LedgerFrame

LedgerAddStock ==
    \E code \in DOMAIN airports, kitClass \in LedgerClasses, amount \in LedgerAmounts :
        /\ last.n < MaxLedgerOps
        /\ airportStocks' = addStock(airportStocks, airports, code, kitClass, amount).stocks
        /\ last' = Did("addStock", currentDay, currentHour, TRUE, 0)
        /\ UNCHANGED <<inFlightKits, processingKits, currentDay, currentHour>>
        /\ LedgerFrame

LedgerTrackInFlightKits ==
    \E id \in DOMAIN LedgerFlights, kits \in LedgerKits, arrival \in LedgerTimes :
        /\ last.n < MaxLedgerOps
        /\ inFlightKits' = trackInFlightKits(inFlightKits, id, LedgerFlights[id], kits,
                                             arrival.day, arrival.hour)
        /\ last' = Did("trackInFlightKits", currentDay, currentHour, TRUE, 0)
        /\ UNCHANGED <<airportStocks, processingKits, currentDay, currentHour>>
        /\ LedgerFrame

LedgerProcessLandedFlight ==
    \E id \in DOMAIN LedgerFlights, arrival \in LedgerTimes :
        LET event == FlightEvent("LANDED", id, "HUB1", LedgerFlights[id],
                                 Time(0, 0), arrival, PerClass(0))
            r == processLandedFlight(airportStocks, inFlightKits, processingKits,
                                     airports, event)
        IN  /\ last.n < MaxLedgerOps
            /\ airportStocks' = r.stocks
            /\ inFlightKits' = r.inflight
            /\ processingKits' = r.processing
            /\ last' = [op |-> "processLandedFlight", n |-> last.n + 1,
                        day |-> currentDay, hour |-> currentHour, ok |-> TRUE,
                        folded |-> 0,
                        prev |-> [op |-> last.op, day |-> last.day, hour |-> last.hour,
                                  folded |-> last.folded],
                        args |-> [flightId |-> id, arrival |-> arrival],
                        tracked |-> Has(inFlightKits, id)]
            /\ UNCHANGED <<currentDay, currentHour>>
            /\ LedgerFrame

LedgerProcessReadyKits ==
    \E t \in LedgerTimes :
        LET r == processReadyKits(airportStocks, processingKits, airports, t.day, t.hour)
        IN  /\ last.n < MaxLedgerOps
            /\ airportStocks' = r.stocks
            /\ processingKits' = r.processing
            /\ last' = Did("processReadyKits", t.day, t.hour, TRUE,
                         Len(processingKits) - Len(r.processing))
            /\ UNCHANGED <<inFlightKits, currentDay, currentHour>>
            /\ LedgerFrame

\* GameState.setTime
LedgerSetTime ==
    \E t \in LedgerTimes :
        LET r == processReadyKits(airportStocks, processingKits, airports, t.day, t.hour)
        IN  /\ last.n < MaxLedgerOps
            /\ currentDay' = t.day
            /\ currentHour' = t.hour
            /\ airportStocks' = r.stocks
            /\ processingKits' = r.processing
            /\ flightsReadyToDepart' =
                   ReadyFlights(knownFlights, knownOrder, t.day, t.hour, loadedFlights)
            /\ last' = Did("setTime", t.day, t.hour, TRUE,
                         Len(processingKits) - Len(r.processing))
            /\ UNCHANGED <<refData, inFlightKits, totalPurchased, airportPerformance,
                           knownFlights, knownOrder, loadedFlights, pc, env, locals>>

LedgerApplyPurchasedKits ==
    \E order \in LedgerKits :
        /\ last.n < MaxLedgerOps
        /\ airportStocks' = applyPurchasedKits(airportStocks, airports, order)
        /\ last' = Did("applyPurchasedKits", currentDay, currentHour, TRUE, 0)
        /\ UNCHANGED <<inFlightKits, processingKits, currentDay, currentHour>>
        /\ LedgerFrame

NextLedger ==
    \/ LedgerDeductStock
    \/ LedgerAddStock
    \/ LedgerTrackInFlightKits
    \/ LedgerProcessLandedFlight
    \/ LedgerProcessReadyKits
    \/ LedgerSetTime
    \/ LedgerApplyPurchasedKits

SpecLedger == InitLedger /\ [][NextLedger]_vars

\* C1: after any sequence of ledger operations from the initial stock levels,
\* every stock figure of every airport and kit class is at least zero and at
\* most the airport's capacity for that class.
C1_StockWithinCapacity ==
    \A code \in DOMAIN airportStocks : \A k \in KitClasses :
        /\ airportStocks[code][k] >= 0
        /\ airportStocks[code][k] <= Q(airports[code].capacity[k])

\* an addition was clamped: the stock sits at capacity after an addition that
\* was larger than the room
C1_Witness ==
    /\ last.op \in {"addStock", "applyPurchasedKits", "processLandedFlight",
                    "processReadyKits"}
    /\ \E code \in DOMAIN airportStocks :
           airportStocks[code]["economy"] = Q(airports[code].capacity["economy"])

\* C9: a second call of processReadyKits or setTime with the same (day, hour)
\* as the call just before it, nothing in between, leaves stock, the in-process
\* queue and the in-transit set as the first call left them.
ReadyOps == {"processReadyKits", "setTime"}

C9_SecondCallChangesNothing ==
    [][(/\ last.op \in ReadyOps
        /\ last'.op \in ReadyOps
        /\ last'.n = last.n + 1
        /\ last'.day = last.day
        /\ last'.hour = last.hour)
       => UNCHANGED ledgerVars]_vars

\* the second of two such calls, where the first folded a batch into stock
C9_Witness ==
    /\ last.op \in ReadyOps
    /\ last.prev.op \in ReadyOps
    /\ last.prev.day = last.day
    /\ last.prev.hour = last.hour
    /\ last.prev.folded > 0
    /\ last.folded = 0

\* C19: deductStock for more than the stock on hand, or for an unknown
\* location, is rejected and changes nothing in the ledger; otherwise it
\* takes exactly the amount off that one stock entry and changes nothing else.
C19_DeductRejectsOrDeductsExactly ==
    [][(last'.op = "deductStock" /\ last'.n = last.n + 1) =>
        LET a == last'.args
        IN  IF ~Has(airportStocks, a.code) \/ airportStocks[a.code][a.kitClass] < a.amount
            THEN /\ ~last'.ok
                 /\ UNCHANGED ledgerVars
            ELSE /\ last'.ok
                 /\ airportStocks' = [airportStocks EXCEPT
                                         ![a.code][a.kitClass] = @ - a.amount]
                 /\ UNCHANGED <<inFlightKits, processingKits>>]_vars

\* a deduct of the whole stock on hand was accepted after one was rejected
C19_Witness ==
    /\ last.op = "deductStock"
    /\ last.ok
    /\ Has(airportStocks, last.args.code)
    /\ airportStocks[last.args.code][last.args.kitClass] = 0
    /\ last.prev.op = "deductStock"

\* the hour, counted from day 0, at which an in-process batch becomes ready
ReadyAt(batch) == batch.readyDay * 24 + batch.readyHour

\* a location whose arrivals wait in the processing queue
SlowSpoke(code) ==
    /\ ~airports[code].isHub
    /\ \E k \in KitClasses : airports[code].processingTime[k] > FastPathHours

LongestProcessing(code) ==
    CHOOSE m \in {airports[code].processingTime[k] : k \in KitClasses} :
        \A k \in KitClasses : airports[code].processingTime[k] <= m

\* the kits of one class that the queued batches ready by hour t hold for a location
RECURSIVE DueKits(_, _, _, _)
DueKits(queue, code, k, t) ==
    IF queue = <<>> THEN 0
    ELSE (IF Head(queue).airportCode = code /\ ReadyAt(Head(queue)) <= t
          THEN Head(queue).kits[k] ELSE 0)
         + DueKits(Tail(queue), code, k, t)

RECURSIVE NotDue(_, _)
NotDue(queue, t) ==
    IF queue = <<>> THEN <<>>
    ELSE IF ReadyAt(Head(queue)) > t
         THEN <<Head(queue)>> \o NotDue(Tail(queue), t)
         ELSE NotDue(Tail(queue), t)

LandingResolved ==
    /\ last'.op = "processLandedFlight"
    /\ last'.n = last.n + 1
    /\ Has(inFlightKits, last'.args.flightId)

ClockAdvanced ==
    /\ last'.op \in {"processReadyKits", "setTime"}
    /\ last'.n = last.n + 1

\* C20: an arrival resolved at a spoke whose longest per-class processing time
\* exceeds the fast path adds nothing to stock and queues the whole batch with
\* ready time = arrival + that longest time; an arrival at the hub or at a
\* fast-path location is folded, capacity-clamped, at once.  A clock advance
\* to hour t folds, capacity-clamped, exactly the queued batches whose ready
\* time is <= t and keeps every batch whose ready time is later.
C20_QueuedUntilReadyThenFolded ==
    [][/\ LandingResolved =>
            LET id == last'.args.flightId
                dest == LedgerFlights[id]
                kits == inFlightKits[id].kits
            IN  IF SlowSpoke(dest)
                THEN /\ airportStocks' = airportStocks
                     /\ processingKits' = Append(processingKits,
                            [airportCode |-> dest,
                             kits |-> kits,
                             readyDay |-> (AbsHour(last'.args.arrival)
                                           + LongestProcessing(dest)) \div 24,
                             readyHour |-> (AbsHour(last'.args.arrival)
                                            + LongestProcessing(dest)) % 24])
                ELSE /\ processingKits' = processingKits
                     /\ \A a \in DOMAIN airportStocks, k \in KitClasses :
                            airportStocks'[a][k] =
                                IF a = dest
                                THEN Min2(Q(airports[a].capacity[k]),
                                          airportStocks[a][k] + kits[k])
                                ELSE airportStocks[a][k]
       /\ ClockAdvanced =>
            LET t == last'.day * 24 + last'.hour
            IN  /\ processingKits' = NotDue(processingKits, t)
                /\ \A a \in DOMAIN airportStocks, k \in KitClasses :
                       airportStocks'[a][k] =
                           Min2(Q(airports[a].capacity[k]),
                                airportStocks[a][k] + DueKits(processingKits, a, k, t))
      ]_vars

\* a batch that landed at a slow spoke was kept by a clock advance before its
\* ready time and has just been folded by the advance at its ready time
C20_Witness ==
    /\ last.op \in {"processReadyKits", "setTime"}
    /\ last.folded = 1
    /\ last.day = 1 /\ last.hour = 3
    /\ last.prev.op \in {"processReadyKits", "setTime"}
    /\ last.prev.folded = 0
    /\ last.prev.day = 0 /\ last.prev.hour = 22
    /\ processingKits = <<>>
    /\ airportStocks["SPK1"]["economy"] > Q(20)

\* C37: processLandedFlight for a flight id that has no in-transit batch (never
\* tracked, or landed already) changes no stock, no in-process batch and no
\* in-transit batch; so a second landing of the same id right after the first
\* credits nothing more.
C37_ArrivalWithoutBatchChangesNothing ==
    [][(/\ last'.op = "processLandedFlight"
        /\ last'.n = last.n + 1
        /\ \/ ~Has(inFlightKits, last'.args.flightId)
           \/ /\ last.op = "processLandedFlight"
              /\ last.args.flightId = last'.args.flightId)
       => UNCHANGED <<airportStocks, inFlightKits, processingKits>>]_vars

\* the landing of a flight was processed again right after its batch had been
\* credited or queued by the first landing
C37_Witness ==
    /\ last.op = "processLandedFlight"
    /\ ~last.tracked
    /\ last.prev.op = "processLandedFlight"
    /\ \/ airportStocks # getInitialStocks(LedgerAirports)
       \/ processingKits # <<>>


-----------------------------------------------------------------------------
(* SpecPlan: setTime, calculateFlightLoads and markFlightsAsLoaded on one    *)
(* day of a small network, with the landings of the loaded flights          *)

PlanHour == 5
PlanStep == 4
PlanLastHour == 17
PlanDays == {1, 5, 16, 27, 29}

PlanAirports(hubStock, spokeStock) ==
    [HUB1 |-> Airport(TRUE, PerClass(1000), PerClass(6), hubStock),
     SPK1 |-> Airport(FALSE, PerClass(200),
                      [first |-> 3, business |-> 2, premiumEconomy |-> 4, economy |-> 5],
                      spokeStock)]

\* the last one is within a few kits of the depot's safety buffers
PlanHubStocks ==
    {PerClass(940), PerClass(600), [PerClass(700) EXCEPT !["business"] = 0],
     [first |-> 503, business |-> 505, premiumEconomy |-> 110, economy |-> 110]}
PlanSpokeStocks ==
    {PerClass(120), [PerClass(60) EXCEPT !["first"] = 0], PerClass(22), PerClass(0)}

PlanAircraft ==
    [A320 |-> [kitCapacity |-> [first |-> 70, business |-> 80, premiumEconomy |-> 75,
                                economy |-> 90],
               costPerKgPerKm |-> DefaultFuelRate]]

PlanPassengers == [first |-> 4, business |-> 10, premiumEconomy |-> 6, economy |-> 30]

PlanFlight(id, day) ==
    CASE id = "P1" -> FlightEvent("SCHEDULED", id, "HUB1", "SPK1",
                                  Time(day, PlanHour), Time(day, PlanHour + 2),
                                  PlanPassengers)
      [] id = "P2" -> FlightEvent("CHECKED_IN", id, "SPK1", "HUB1",
                                  Time(day, PlanHour), Time(day, PlanHour + 3),
                                  PerClass(4))
      [] id = "P3" -> FlightEvent("SCHEDULED", id, "SPK1", "HUB1",
                                  Time(day, PlanHour + PlanStep),
                                  Time(day, PlanHour + PlanStep + 3), PerClass(4))
      [] id = "P4" -> [FlightEvent("CHECKED_IN", id, "HUB1", "SPK1",
                                   Time(day, PlanHour), Time(day, PlanHour + 2),
                                   PlanPassengers) EXCEPT !.aircraftType = "B777"]
      [] id = "P5" -> FlightEvent("CHECKED_IN", id, "SPK9", "HUB1",
                                  Time(day, PlanHour), Time(day, PlanHour + 3),
                                  PerClass(4))
      [] id = "P6" -> FlightEvent("CHECKED_IN", id, "SPK1", "HUB1",
                                  Time(day, PlanHour), Time(day, PlanHour + 3),
                                  PerClass(10))

\* P4 flies an aircraft type and P5 leaves an airport the loader never read;
\* P2 and P6 leave the same spoke in the same hour, P6 with more passengers
PlanCatalogues ==
    {<<"P2">>, <<"P1", "P3">>, <<"P1", "P2", "P3">>, <<"P4", "P5", "P1", "P2">>,
     <<"P2", "P6", "P1">>}

AllWeek == [i \in 1..7 |-> TRUE]

PlanTemplates ==
    {<<>>,
     <<[departCode |-> "SPK1", arrivalCode |-> "HUB1", scheduledHour |-> 20,
        distanceKm |-> 30, weekdays |-> AllWeek]>>}

\* a spoke the risk tracker has seen overflow three times
PlanRisky ==
    LET r == [day |-> 0, hour |-> 0, type |-> "INVENTORY_EXCEEDS_CAPACITY",
              airportCode |-> "SPK1"]
    IN  updateAirportPerformance(
            updateAirportPerformance(updateAirportPerformance(NoPerformance, r), r), r)

RECURSIVE SumOver(_, _)
SumOver(f, keys) ==
    IF keys = {} THEN 0
    ELSE LET x == CHOOSE y \in keys : TRUE
         IN  f[x] + SumOver(f, keys \ {x})

\* kits of one class held anywhere: in stock, in transit or in process
KitsInSystem(stocks, inflight, processing, k) ==
    SumOver([c \in DOMAIN stocks |->
                stocks[c][k] + getInFlightKitsToAirport(inflight, c, k)
                + getProcessingKitsAtAirport(processing, c, k)],
            DOMAIN stocks)

NowView ==
    View(airportStocks, inFlightKits, processingKits, airports, aircraftTypes,
         flightPlans, airportPerformance, knownFlights)

InitPlan ==
    \E day \in PlanDays, hubStock \in PlanHubStocks, spokeStock \in PlanSpokeStocks,
       catalogue \in PlanCatalogues, template \in PlanTemplates,
       perf \in {NoPerformance, PlanRisky} :
        /\ airports = PlanAirports(hubStock, spokeStock)
        /\ aircraftTypes = PlanAircraft
        /\ flightPlans = template
        /\ airportStocks = getInitialStocks(PlanAirports(hubStock, spokeStock))
        /\ inFlightKits = EmptyMap
        /\ processingKits = <<>>
        /\ totalPurchased = PerClass(0)
        /\ airportPerformance = perf
        /\ currentDay = day
        /\ currentHour = PlanHour
        /\ knownFlights = [id \in {catalogue[i] : i \in 1..Len(catalogue)} |->
                              PlanFlight(id, day)]
        /\ knownOrder = catalogue
        /\ loadedFlights = {}
        /\ flightsReadyToDepart =
               ReadyFlights([id \in {catalogue[i] : i \in 1..Len(catalogue)} |->
                                PlanFlight(id, day)],
                            catalogue, day, PlanHour, {})
        /\ pc = "plan"
        /\ env = "none"
        /\ locals = NoLocals
        /\ last = [op |-> "init", batches |-> 0,
                   total0 |-> [k \in KitClasses |->
                       KitsInSystem(getInitialStocks(PlanAirports(hubStock, spokeStock)),
                                    EmptyMap, <<>>, k)]]

\* calculateFlightLoads followed by markFlightsAsLoaded, as in a round of runGame
PlanApplyLoads(r) ==
    /\ pc = "plan"
    /\ flightsReadyToDepart # <<>>
    /\ airportStocks' = r.stocks
    /\ inFlightKits' = r.inflight
    /\ loadedFlights' = loadedFlights \cup {r.loads[i].flightId : i \in 1..Len(r.loads)}
    /\ pc' = "wait"
    /\ last' = [op |-> "calculateFlightLoads",
                batches |-> last.batches
                    + Cardinality({i \in 1..Len(r.loads) :
                                      \E k \in KitClasses : r.loads[i].loadedKits[k] # 0}),
                total0 |-> last.total0,
                ready |-> flightsReadyToDepart,
                before |-> [stocks |-> airportStocks, inflight |-> inFlightKits,
                            processing |-> processingKits],
                loads |-> r.loads,
                rejected |-> r.rejected]
    /\ UNCHANGED <<refData, processingKits, totalPurchased, airportPerformance,
                   currentDay, currentHour, knownFlights, knownOrder,
                   flightsReadyToDepart, env, locals>>

PlanCalculateFlightLoads ==
    PlanApplyLoads(calculateFlightLoads(NowView, flightsReadyToDepart,
                                        currentDay, currentHour))

\* processFlightUpdates of the LANDED event of a flight that has arrived
PlanLanded ==
    \E id \in DOMAIN inFlightKits :
        LET event == [knownFlights[id] EXCEPT !.eventType = "LANDED"]
            G == [known |-> knownFlights, order |-> knownOrder, stocks |-> airportStocks,
                  inflight |-> inFlightKits, processing |-> processingKits,
                  airports |-> airports]
            r == processFlightUpdates(G, <<event>>)
        IN  /\ AbsHour(event.arrival) <= currentDay * 24 + currentHour
            /\ knownFlights' = r.known
            /\ knownOrder' = r.order
            /\ airportStocks' = r.stocks
            /\ inFlightKits' = r.inflight
            /\ processingKits' = r.processing
            /\ last' = [op |-> "processLandedFlight", batches |-> last.batches,
                        total0 |-> last.total0, flightId |-> id]
            /\ UNCHANGED <<refData, totalPurchased, airportPerformance, currentDay,
                           currentHour, loadedFlights, flightsReadyToDepart, pc, env, locals>>

\* setTime at a later hour of the day
PlanSetTime ==
    LET hour == currentHour + PlanStep
        r == processReadyKits(airportStocks, processingKits, airports, currentDay, hour)
    IN  /\ hour <= PlanLastHour
        /\ currentHour' = hour
        /\ airportStocks' = r.stocks
        /\ processingKits' = r.processing
        /\ flightsReadyToDepart' =
               ReadyFlights(knownFlights, knownOrder, currentDay, hour, loadedFlights)
        /\ pc' = "plan"
        /\ last' = [op |-> "setTime", batches |-> last.batches, total0 |-> last.total0,
                    folded |-> Len(processingKits) - Len(r.processing)]
        /\ UNCHANGED <<refData, inFlightKits, totalPurchased, airportPerformance,
                       currentDay, knownFlights, knownOrder, loadedFlights, env, locals>>

NextPlan == PlanCalculateFlightLoads \/ PlanLanded \/ PlanSetTime

SpecPlan == InitPlan /\ [][NextPlan]_vars

\* kits of class k the last call of calculateFlightLoads planned for airport d
PlannedTo(d, k) ==
    SumOver([i \in 1..Len(last.loads) |->
                IF knownFlights[last.loads[i].flightId].destinationAirport = d
                THEN last.loads[i].loadedKits[k] ELSE 0],
            1..Len(last.loads))

\* C2: for every planned departure and kit class, counting the base load and
\* the extra-to-spoke / return-to-depot portions, the destination's stock plus
\* the kits already in transit to it plus the planned load does not exceed the
\* destination's capacity for that class.
C2_DestinationWithinCapacity ==
    last.op = "calculateFlightLoads" =>
        \A d \in DOMAIN airports : \A k \in KitClasses :
            PlannedTo(d, k) > 0 =>
                last.before.stocks[d][k]
                + getInFlightKitsToAirport(last.before.inflight, d, k)
                + PlannedTo(d, k) <= Q(airports[d].capacity[k])

\* a departure to the hub was planned with a return-to-depot portion on top of
\* its passenger load
C2_Witness ==
    /\ last.op = "calculateFlightLoads"
    /\ \E i \in 1..Len(last.loads) :
           /\ knownFlights[last.loads[i].flightId].destinationAirport = "HUB1"
           /\ last.loads[i].loadedKits["first"]
                  > Q(knownFlights[last.loads[i].flightId].passengers["first"])

\* C3: with a single batch taken through load, arrival, in-process and fold
\* and nothing else interleaved, the kits of each class summed over origin
\* stock, in-transit, in-process and destination stock stay what they were.
C3_BatchConserved ==
    last.batches <= 1 =>
        \A k \in KitClasses :
            KitsInSystem(airportStocks, inFlightKits, processingKits, k) = last.total0[k]

\* the single batch has landed and is no longer in transit or in process
C3_Witness ==
    /\ last.batches = 1
    /\ last.op \in {"processLandedFlight", "setTime"}
    /\ DOMAIN inFlightKits = {}
    /\ processingKits = <<>>
    /\ loadedFlights # {}

\* C8: when the origin's stock of a class is zero, the planned load of that
\* class is exactly zero in every regime, the deduction is not rejected, the
\* stock does not go negative, and the departure still has its load entry.
C8_ZeroStockLoadsNothing ==
    last.op = "calculateFlightLoads" =>
        \A i \in 1..Len(last.ready) : \A k \in KitClasses :
            (/\ Has(last.before.stocks, last.ready[i].originAirport)
             /\ last.before.stocks[last.ready[i].originAirport][k] = 0) =>
                /\ \E j \in 1..Len(last.loads) :
                       /\ last.loads[j].flightId = last.ready[i].flightId
                       /\ last.loads[j].loadedKits[k] = 0
                /\ <<last.ready[i].flightId, k>> \notin last.rejected
                /\ airportStocks[last.ready[i].originAirport][k] = 0

\* a departure from an origin with no stock of one class that still carries
\* kits of another class
C8_Witness ==
    /\ last.op = "calculateFlightLoads"
    /\ \E i \in 1..Len(last.ready) : \E k, k2 \in KitClasses :
           /\ Has(last.before.stocks, last.ready[i].originAirport)
           /\ last.before.stocks[last.ready[i].originAirport][k] = 0
           /\ \E j \in 1..Len(last.loads) :
                  /\ last.loads[j].flightId = last.ready[i].flightId
                  /\ last.loads[j].loadedKits[k] = 0
                  /\ last.loads[j].loadedKits[k2] > 0

\* the state calculateFlightLoads started from, as the planner sees it
BeforeView ==
    View(last.before.stocks, last.before.inflight, last.before.processing, airports,
         aircraftTypes, flightPlans, airportPerformance, knownFlights)

PremiumClasses == {"first", "business", "premiumEconomy"}

\* the regimes that switch balancing off for a departure: the last day, and
\* for departures from the depot the bootstrap window and the late-run cutoff
NoExtraApplies(flight, day) ==
    \/ day >= LastDay
    \/ /\ flight.originAirport = "HUB1"
       /\ (day <= EarlyGameLastDay \/ day >= NearEndDay)

\* the safety buffer kept at an origin, whole kits
BufferKept(origin, k, day) ==
    IF origin = "HUB1"
    THEN (IF day <= EarlyGameLastDay
          THEN Max2(EarlyGameBufferMin, (airports[origin].capacity[k] * 5) \div 100)
          ELSE SafetyBufferHub)
    ELSE SafetyBufferSpoke

\* min(passenger demand, max(0, origin stock - safety buffer), aircraft capacity)
ClampedDemand(flight, k, day) ==
    MinSeq(<<Q(flight.passengers[k]),
             Max2(0, last.before.stocks[flight.originAirport][k]
                     - Q(BufferKept(flight.originAirport, k, day))),
             Q(aircraftTypes[flight.aircraftType].kitCapacity[k])>>)

\* C11: for a premium class, when the destination headroom does not bind and
\* no balancing extra applies, the load of a departure planned alone is
\* min(passenger demand, max(0, origin stock - safety buffer), aircraft
\* capacity of the class).
C11_PremiumLoadIsClampedDemand ==
    (last.op = "calculateFlightLoads" /\ Len(last.ready) = 1) =>
        \A k \in PremiumClasses :
            (/\ NoExtraApplies(last.ready[1], currentDay)
             /\ ClampedDemand(last.ready[1], k, currentDay)
                    <= DestRoom(BeforeView, last.ready[1].destinationAirport, k))
            => last.loads[1].loadedKits[k] = ClampedDemand(last.ready[1], k, currentDay)

\* the safety buffer is what bounds the load: stock 22, buffer 20, demand 4
C11_Witness ==
    /\ last.op = "calculateFlightLoads" /\ Len(last.ready) = 1
    /\ \E k \in PremiumClasses :
        /\ NoExtraApplies(last.ready[1], currentDay)
        /\ last.loads[1].loadedKits[k] > 0
        /\ last.loads[1].loadedKits[k] < Q(last.ready[1].passengers[k])
        /\ last.loads[1].loadedKits[k]
               = last.before.stocks[last.ready[1].originAirport][k]
                 - Q(BufferKept(last.ready[1].originAirport, k, currentDay))

\* a departure the planner has no aircraft type or no origin stock for
MissingData(flight) ==
    \/ ~Has(last.before.stocks, flight.originAirport)
    \/ ~Has(aircraftTypes, flight.aircraftType)

LoadOf(flightId) ==
    {last.loads[j].loadedKits : j \in {n \in 1..Len(last.loads) :
                                          last.loads[n].flightId = flightId}}

\* kits of class k the last call planned out of airport a
PlannedFrom(a, k) ==
    SumOver([i \in 1..Len(last.loads) |->
                IF knownFlights[last.loads[i].flightId].originAirport = a
                THEN last.loads[i].loadedKits[k] ELSE 0],
            1..Len(last.loads))

\* C14: a departure whose aircraft type or origin is unknown gets an all-zero
\* load, no stock is deducted and no in-transit batch is recorded for it, and
\* every other departure of the round is still planned.
C14_UnknownDataLoadsZero ==
    (last.op = "calculateFlightLoads"
     /\ \E i \in 1..Len(last.ready) : MissingData(last.ready[i])) =>
        /\ \A i \in 1..Len(last.ready) :
            /\ LoadOf(last.ready[i].flightId) # {}
            /\ MissingData(last.ready[i]) =>
                /\ LoadOf(last.ready[i].flightId) = {PerClass(0)}
                /\ ~Has(inFlightKits, last.ready[i].flightId)
            /\ ~MissingData(last.ready[i]) =>
                Has(inFlightKits, last.ready[i].flightId)
        /\ Len(last.loads) = Len(last.ready)
        /\ \A a \in DOMAIN airportStocks : \A k \in KitClasses :
            last.before.stocks[a][k] - airportStocks[a][k] = PlannedFrom(a, k)
        /\ DOMAIN airportStocks = DOMAIN last.before.stocks

\* a round with an unknown aircraft type, an unknown origin and a departure
\* that is loaded with kits
C14_Witness ==
    /\ last.op = "calculateFlightLoads"
    /\ \E i, j, n \in 1..Len(last.ready) :
        /\ ~Has(aircraftTypes, last.ready[i].aircraftType)
        /\ ~Has(last.before.stocks, last.ready[j].originAirport)
        /\ ~MissingData(last.ready[n])
        /\ \E kits \in LoadOf(last.ready[n].flightId) : kits["first"] > 0

\* every load of the round just planned is at most the passenger count of its
\* departure, class by class
LoadsWithinPassengers ==
    \A i \in 1..Len(last.ready) : \A kits \in LoadOf(last.ready[i].flightId) :
        \A k \in KitClasses : kits[k] <= Q(last.ready[i].passengers[k])

\* a departure of the round, out of `origins`, that has stock to spare at its
\* origin beyond its passengers and is loaded with kits
LoadedWithStockToSpare(origins) ==
    \E i \in 1..Len(last.ready) : \E kits \in LoadOf(last.ready[i].flightId) :
        /\ last.ready[i].originAirport \in origins
        /\ Has(last.before.stocks, last.ready[i].originAirport)
        /\ last.before.stocks[last.ready[i].originAirport]["first"]
               > Q(last.ready[i].passengers["first"] + SafetyBufferSpoke)
        /\ kits["first"] > 0

\* C24: in the bootstrap window (days 0..2) no balancing happens: every
\* departure, from the depot or from a spoke, is loaded with at most its
\* passenger demand for each class.
C24_BootstrapNoBalancing ==
    (last.op = "calculateFlightLoads" /\ currentDay <= EarlyGameLastDay)
        => LoadsWithinPassengers

\* a spoke departure planned in the bootstrap window
C24_Witness ==
    /\ last.op = "calculateFlightLoads"
    /\ currentDay <= EarlyGameLastDay
    /\ LoadedWithStockToSpare(DOMAIN airports \ {"HUB1"})

\* C25: from the late-run cutoff (day 15) on all balancing stops: no departure,
\* depot-to-spoke or spoke-to-depot, is loaded above its passenger demand for
\* any class.
C25_CutoffStopsAllBalancing ==
    (last.op = "calculateFlightLoads" /\ currentDay >= NearEndDay)
        => LoadsWithinPassengers

\* a spoke departure planned after the cut-off and before the last day
C25_Witness ==
    /\ last.op = "calculateFlightLoads"
    /\ currentDay >= NearEndDay /\ currentDay < LastDay
    /\ LoadedWithStockToSpare(DOMAIN airports \ {"HUB1"})

\* C26: on the last day of the horizon, its final round included, every load
\* of every class is at most the passenger count of the departure: no
\* extra-to-spoke and no return-to-depot quantity is added.
C26_LastDayLoadsDemandOnly ==
    (last.op = "calculateFlightLoads" /\ currentDay >= LastDay)
        => LoadsWithinPassengers

\* on the last day a depot departure and a spoke departure, each with stock to
\* spare at its origin, are planned in one round
C26_Witness ==
    /\ last.op = "calculateFlightLoads"
    /\ currentDay >= LastDay
    /\ LoadedWithStockToSpare({"HUB1"})
    /\ LoadedWithStockToSpare(DOMAIN airports \ {"HUB1"})


\* the penalty exposure of a departure: passengers x route distance x class
\* weight, summed over the classes, the weights in 1/1000
ClassWeight == [first |-> 10, business |-> 6, premiumEconomy |-> 4, economy |-> 3]

Exposure(flight) ==
    SumOver([k \in KitClasses |->
                flight.passengers[k]
                * getFlightDistance(flightPlans, flight.originAirport,
                                    flight.destinationAirport)
                * ClassWeight[k]],
            KitClasses)

FromDepot(flight) == flight.originAirport = "HUB1"

\* the departure at position i of the planning order of the last round
PlannedAt(i) == knownFlights[last.loads[i].flightId]

\* C27: within a round the departures are planned, and origin stock is taken,
\* in this order: every departure from the depot before any departure from a
\* spoke, and within each group by non-increasing penalty exposure; so when a
\* departure of lower exposure gets kits of a premium class, the same-origin
\* departure of highest exposure has its full passenger demand (up to the
\* aircraft capacity) unless the destination room binds.
C27_PlannedByPriority ==
    /\ last.op = "calculateFlightLoads" =>
        \A i, j \in 1..Len(last.loads) :
            i < j =>
                /\ FromDepot(PlannedAt(j)) => FromDepot(PlannedAt(i))
                /\ (FromDepot(PlannedAt(i)) = FromDepot(PlannedAt(j)))
                       => Exposure(PlannedAt(i)) >= Exposure(PlannedAt(j))
    /\ last.op = "calculateFlightLoads" =>
        \A i, j \in 1..Len(last.ready) : \A k \in PremiumClasses :
            (/\ ~MissingData(last.ready[i]) /\ ~MissingData(last.ready[j])
             /\ last.ready[i].originAirport = last.ready[j].originAirport
             /\ Exposure(last.ready[i]) > Exposure(last.ready[j])
             /\ \A n \in 1..Len(last.ready) :
                    last.ready[n].originAirport = last.ready[i].originAirport
                        => Exposure(last.ready[n]) <= Exposure(last.ready[i])
             /\ Q(last.ready[i].passengers[k])
                    <= DestRoom(BeforeView, last.ready[i].destinationAirport, k)
             /\ \E kits \in LoadOf(last.ready[j].flightId) : kits[k] > 0)
            => \A kits \in LoadOf(last.ready[i].flightId) :
                   kits[k] >= Min2(Q(last.ready[i].passengers[k]),
                                   Q(aircraftTypes[last.ready[i].aircraftType]
                                         .kitCapacity[k]))

\* two departures of one spoke arrive in the order lower exposure first and a
\* depot departure last; the depot departure is planned first and the spoke
\* departure of higher exposure takes the little stock there is
C27_Witness ==
    /\ last.op = "calculateFlightLoads"
    /\ Len(last.ready) = 3 /\ Len(last.loads) = 3
    /\ ~FromDepot(last.ready[1]) /\ FromDepot(last.ready[3])
    /\ FromDepot(PlannedAt(1))
    /\ last.ready[1].originAirport = last.ready[2].originAirport
    /\ Exposure(last.ready[1]) < Exposure(last.ready[2])
    /\ last.loads[2].flightId = last.ready[2].flightId
    /\ last.loads[2].loadedKits["business"] > 0
    /\ last.loads[3].loadedKits["business"] = 0


\* kits of class k planned, before position j of the planning order, out of
\* the origin of the departure at position j
TakenBefore(j, k) ==
    SumOver([i \in 1..Len(last.loads) |->
                IF i < j /\ PlannedAt(i).originAirport = PlannedAt(j).originAirport
                THEN last.loads[i].loadedKits[k] ELSE 0],
            1..Len(last.loads))

\* C28: in every round and regime each per-class load of a departure, balancing
\* extras included, is >= 0, at most the aircraft's capacity of the class and
\* at most the origin's stock at the moment the departure is planned, so no
\* deductStock of a planned load is rejected.
C28_LoadWithinStockAndCapacity ==
    last.op = "calculateFlightLoads" =>
        /\ last.rejected = {}
        /\ \A j \in 1..Len(last.loads) : \A k \in KitClasses :
               /\ last.loads[j].loadedKits[k] >= 0
               /\ ~MissingData(PlannedAt(j)) =>
                      /\ last.loads[j].loadedKits[k]
                             <= Q(aircraftTypes[PlannedAt(j).aircraftType].kitCapacity[k])
                      /\ last.loads[j].loadedKits[k]
                             <= last.before.stocks[PlannedAt(j).originAirport][k]
                                - TakenBefore(j, k)

\* a spoke departure carrying return-to-hub extras that fill the aircraft
\* exactly to its capacity of a class
C28_Witness ==
    /\ last.op = "calculateFlightLoads"
    /\ \E j \in 1..Len(last.loads) : \E k \in KitClasses :
           /\ ~MissingData(PlannedAt(j))
           /\ last.loads[j].loadedKits[k] > Q(PlannedAt(j).passengers[k])
           /\ last.loads[j].loadedKits[k]
                  = Q(aircraftTypes[PlannedAt(j).aircraftType].kitCapacity[k])


\* the stock of class k at the origin of the departure at position j of the
\* planning order, when its turn comes
StockAtTurn(j, k) ==
    last.before.stocks[PlannedAt(j).originAirport][k] - TakenBefore(j, k)

\* C29: a load never draws the origin's stock below the safety buffer: after
\* each departure is planned the origin's stock of each class is at least
\* min(its stock before that departure, the safety buffer), balancing extras
\* included; the depot's buffer is larger than a spoke's and larger still in
\* the bootstrap window.
C29_SafetyBufferKept ==
    /\ SafetyBufferHub > SafetyBufferSpoke
    /\ EarlyGameBufferMin > SafetyBufferHub
    /\ last.op = "calculateFlightLoads" =>
           \A j \in 1..Len(last.loads) : \A k \in KitClasses :
               ~MissingData(PlannedAt(j)) =>
                   StockAtTurn(j, k) - last.loads[j].loadedKits[k]
                       >= Min2(StockAtTurn(j, k),
                               Q(BufferKept(PlannedAt(j).originAirport, k, currentDay)))

\* in the bootstrap window a depot departure is loaded with less than its
\* passengers and leaves the depot exactly at its buffer, while another class,
\* already below the buffer, is not touched
C29_Witness ==
    /\ last.op = "calculateFlightLoads"
    /\ currentDay <= EarlyGameLastDay
    /\ \E j \in 1..Len(last.loads) : \E k, k2 \in KitClasses :
           /\ ~MissingData(PlannedAt(j))
           /\ PlannedAt(j).originAirport = "HUB1"
           /\ last.loads[j].loadedKits[k] > 0
           /\ last.loads[j].loadedKits[k] < Q(PlannedAt(j).passengers[k])
           /\ StockAtTurn(j, k) - last.loads[j].loadedKits[k]
                  = Q(BufferKept("HUB1", k, currentDay))
           /\ StockAtTurn(j, k2) < Q(BufferKept("HUB1", k2, currentDay))
           /\ last.loads[j].loadedKits[k2] = 0



-----------------------------------------------------------------------------
(* SpecPurchase: calculatePurchaseOrder and applyPurchasedKits over a few    *)
(* consecutive rounds, from a depot state drawn from a small set            *)

MaxPurchaseRounds == 3

PurchaseDays == {1, 5, 27, 28, 29}
PurchaseHours == {3, 6, 12}

\* hub capacity and hub stock, whole kits
PurchaseDepots ==
    {[capacity |-> [first |-> 5000, business |-> 5000, premiumEconomy |-> 5000,
                    economy |-> 20000],
      stock |-> PerClass(300)],
     [capacity |-> [first |-> 350, business |-> 8000, premiumEconomy |-> 5000,
                    economy |-> 80000],
      stock |-> [first |-> 350, business |-> 2100, premiumEconomy |-> 450,
                 economy |-> 10000]],
     [capacity |-> PerClass(5000), stock |-> PerClass(5000)],
     [capacity |-> PerClass(210000), stock |-> PerClass(300)]}

\* the kits purchased before the first round: none, some, and all but a few
\* hundred of the budget of every class
PurchasedBefore ==
    {PerClass(0), PerClass(Q(3000)),
     [first |-> Q(49500), business |-> Q(99000), premiumEconomy |-> Q(29500),
      economy |-> Q(199000)]}

PurchaseAirports(depot) ==
    [HUB1 |-> Airport(TRUE, depot.capacity, PerClass(6), depot.stock),
     SPK1 |-> Airport(FALSE, PerClass(200), PerClass(4), PerClass(50))]

\* a departure from the hub every second hour of every day
HourlyFromHub ==
    [h \in 1..12 |->
        [departCode |-> "HUB1", arrivalCode |-> "SPK1", scheduledHour |-> 2 * (h - 1),
         distanceKm |-> 30, weekdays |-> AllWeek]]

PurchaseTemplates == {<<>>, HourlyFromHub}

\* capacity minus (stock + in-transit + in-process), in units
Headroom(stocks, inflight, processing, airportTable, k) ==
    Q(airportTable["HUB1"].capacity[k])
    - (stocks["HUB1"][k] + getInFlightKitsToAirport(inflight, "HUB1", k)
       + getProcessingKitsAtAirport(processing, "HUB1", k))

InitPurchase ==
    \E day \in PurchaseDays, hour \in PurchaseHours, depot \in PurchaseDepots,
       purchased \in PurchasedBefore, template \in PurchaseTemplates :
        /\ airports = PurchaseAirports(depot)
        /\ aircraftTypes = PlanAircraft
        /\ flightPlans = template
        /\ airportStocks = getInitialStocks(PurchaseAirports(depot))
        /\ inFlightKits = EmptyMap
        /\ processingKits = <<>>
        /\ totalPurchased = purchased
        /\ airportPerformance = NoPerformance
        /\ currentDay = day
        /\ currentHour = hour
        /\ knownFlights = EmptyMap
        /\ knownOrder = <<>>
        /\ loadedFlights = {}
        /\ flightsReadyToDepart = <<>>
        /\ pc = "purchase"
        /\ env = "none"
        /\ locals = NoLocals
        /\ last = [op |-> "init", rounds |-> 0]

PurchaseRecord(r) ==
    /\ pc = "purchase"
    /\ last.rounds < MaxPurchaseRounds
    /\ totalPurchased' = r.purchased
    /\ pc' = "apply"
    /\ last' = [op |-> "calculatePurchaseOrder", rounds |-> last.rounds + 1,
                order |-> r.order, any |-> r.any, modes |-> r.modes,
                before |-> [stocks |-> airportStocks, purchased |-> totalPurchased]]
    /\ UNCHANGED <<refData, ledgerVars, airportPerformance, gameVars, env, locals>>

PurchaseCalculateOrder ==
    PurchaseRecord(calculatePurchaseOrder(NowView, totalPurchased, currentDay, currentHour))

\* after the round trip: if (purchaseOrder) applyPurchasedKits(purchaseOrder)
PurchaseApply ==
    /\ pc = "apply"
    /\ airportStocks' = IF last.any
                        THEN applyPurchasedKits(airportStocks, airports, last.order)
                        ELSE airportStocks
    /\ pc' = "tick"
    /\ last' = [last EXCEPT !.op = "applyPurchasedKits"]
    /\ UNCHANGED <<refData, inFlightKits, processingKits, totalPurchased,
                   airportPerformance, gameVars, env, locals>>

\* the next round of the hour loop
PurchaseTick ==
    /\ pc = "tick"
    /\ currentDay * 24 + currentHour < LastDay * 24 + LastHour
    /\ currentHour' = (currentHour + 1) % 24
    /\ currentDay' = IF currentHour + 1 >= 24 THEN currentDay + 1 ELSE currentDay
    /\ pc' = "purchase"
    /\ last' = [last EXCEPT !.op = "tick"]
    /\ UNCHANGED <<refData, ledgerVars, totalPurchased, airportPerformance,
                   knownFlights, knownOrder, loadedFlights, flightsReadyToDepart, env, locals>>

NextPurchase == PurchaseCalculateOrder \/ PurchaseApply \/ PurchaseTick

SpecPurchase == InitPurchase /\ [][NextPurchase]_vars

HeadroomBefore(k) ==
    Headroom(last.before.stocks, inFlightKits, processingKits, airports, k)

RemainingBudget(k) == Q(maxTotalPurchase[k]) - last.before.purchased[k]

\* C5: every per-class amount of a purchase order, in every mode, is at most
\* the least of the per-order limit, the remaining purchase budget, the API
\* rate limit and the depot headroom of that class.
C5_OrderWithinAllLimits ==
    last.op = "calculatePurchaseOrder" =>
        \A k \in KitClasses :
            last.order[k] <= MinSeq(<<Q(maxPerOrder[k]), RemainingBudget(k),
                                      Q(apiLimits[k]), HeadroomBefore(k)>>)

\* a round that issues an emergency order
C5_Witness ==
    /\ last.op = "calculatePurchaseOrder"
    /\ \E k \in KitClasses : last.modes[k] = "emergency" /\ last.order[k] > 0

\* C6: when the depot stock of a class is below its emergency floor, the hours
\* remaining cover its lead time, capacity minus (stock + in-transit +
\* in-process) is positive and budget remains, the round's order for the class
\* is exactly min(emergency quantity, remaining budget, rate limit, headroom),
\* whatever the hour.
C6_EmergencyOrderIsExact ==
    last.op = "calculatePurchaseOrder" =>
        \A k \in KitClasses :
            (/\ last.before.stocks["HUB1"][k] < Q(emergencyThresholds[k])
             /\ hoursRemainingAt(currentDay, currentHour) >= LEAD_TIMES[k]
             /\ HeadroomBefore(k) > 0
             /\ RemainingBudget(k) > 0)
            => last.order[k] = MinSeq(<<Q(thresholds[k]), RemainingBudget(k),
                                        Q(apiLimits[k]), HeadroomBefore(k)>>)

\* C7: when the depot headroom of a class is zero or negative, the round's
\* order holds no quantity for that class, whatever the stock level, the
\* forecast deficit or the mode.
C7_NoHeadroomNoOrder ==
    last.op = "calculatePurchaseOrder" =>
        \A k \in KitClasses :
            (\/ HeadroomBefore(k) <= 0
             \/ HeadroomBefore(k) - last.before.purchased[k] <= 0)
            => last.order[k] = 0

\* a class with no headroom whose stock is below the emergency floor, with
\* time left to order, while another class is ordered in the same round
C7_Witness ==
    /\ last.op = "calculatePurchaseOrder"
    /\ \E k, k2 \in KitClasses :
           /\ HeadroomBefore(k) <= 0
           /\ last.before.stocks["HUB1"][k] < Q(emergencyThresholds[k])
           /\ hoursRemainingAt(currentDay, currentHour) >= LEAD_TIMES[k]
           /\ last.order[k] = 0
           /\ last.order[k2] > 0

\* the conditions of the replenishment modes for a class in the round just planned
EmergencyCondition(k) == last.before.stocks["HUB1"][k] < Q(emergencyThresholds[k])

BootstrapCondition(k) ==
    /\ currentDay <= EarlyGameLastDay
    /\ 2 * last.before.stocks["HUB1"][k] < Q(airports["HUB1"].capacity[k])

DeadlineBurstCondition(k) ==
    /\ hoursRemainingAt(currentDay, currentHour) >= LEAD_TIMES[k]
    /\ hoursRemainingAt(currentDay, currentHour) <= LEAD_TIMES[k] + BurstWindow

\* what the emergency mode orders: the emergency quantity within the remaining
\* budget, the rate limit and the room the planner sees
EmergencyModeAmount(k) ==
    Max2(0, MinSeq(<<Q(thresholds[k]), RemainingBudget(k), Q(apiLimits[k]),
                     HeadroomBefore(k) - last.before.purchased[k]>>))

\* C21: the emergency mode is evaluated first: in a round where the stock of a
\* class is below its emergency floor and the bootstrap or the deadline-burst
\* condition holds as well, the amount ordered for the class is the
\* emergency-mode amount.
C21_EmergencyModeFirst ==
    last.op = "calculatePurchaseOrder" =>
        \A k \in KitClasses :
            (/\ EmergencyCondition(k)
             /\ hoursRemainingAt(currentDay, currentHour) >= LEAD_TIMES[k]
             /\ BootstrapCondition(k) \/ DeadlineBurstCondition(k))
            => last.order[k] = EmergencyModeAmount(k)

\* a round in the bootstrap window that orders a class whose stock is below
\* its emergency floor
C21_Witness ==
    /\ last.op = "calculatePurchaseOrder"
    /\ \E k \in KitClasses :
           /\ EmergencyCondition(k)
           /\ BootstrapCondition(k)
           /\ last.order[k] > 0


\* C22: at every point of a run the total purchased of a class is at most the
\* purchase budget of the class, and a round that starts with the budget of a
\* class used up orders nothing of that class, in any mode.
C22_BudgetNeverExceeded ==
    /\ \A k \in KitClasses : totalPurchased[k] <= Q(maxTotalPurchase[k])
    /\ last.op = "calculatePurchaseOrder" =>
           \A k \in KitClasses :
               /\ last.before.purchased[k] + last.order[k] = totalPurchased[k]
               /\ RemainingBudget(k) <= 0 => last.order[k] = 0

\* a round that orders nothing of a class whose budget an earlier round of the
\* run used up, although its stock is below the emergency floor
C22_Witness ==
    /\ last.op = "calculatePurchaseOrder"
    /\ last.rounds >= 2
    /\ \E k \in KitClasses :
           /\ RemainingBudget(k) = 0
           /\ EmergencyCondition(k)
           /\ hoursRemainingAt(currentDay, currentHour) >= LEAD_TIMES[k]
           /\ HeadroomBefore(k) - last.before.purchased[k] > 0
           /\ last.order[k] = 0


\* C23: once the order of a round has been applied, the depot stock of every
\* ordered class is the stock the round was planned on plus exactly the ordered
\* amount (addStock does not clamp an order), and the total purchased has grown
\* by the same amount.
C23_OrderCreditedInFull ==
    last.op = "applyPurchasedKits" =>
        \A k \in KitClasses :
            /\ airportStocks["HUB1"][k] = last.before.stocks["HUB1"][k] + last.order[k]
            /\ totalPurchased[k] = last.before.purchased[k] + last.order[k]

\* an applied order that fills the depot of a class exactly to its capacity
C23_Witness ==
    /\ last.op = "applyPurchasedKits"
    /\ \E k \in KitClasses :
           /\ last.order[k] > 0
           /\ airportStocks["HUB1"][k] = Q(airports["HUB1"].capacity[k])


-----------------------------------------------------------------------------
(* SpecForecast: calculateDemandForAirport on drawn inputs *)

ForecastTimes == {Time(0, 20), Time(6, 23), Time(13, 5)}
ForecastHorizons == {0, 1, 24, 48}
ForecastAirports == {"HUB1", "SPK1", "SPK9"}

\* the time `offset` hours after (or before) t
TimeAfter(t, offset) ==
    [day |-> (t.day * 24 + t.hour + offset) \div 24,
     hour |-> (t.day * 24 + t.hour + offset) % 24]

\* known flights around `now`; a flight that has landed departed before now
ForecastFlight(id, now) ==
    CASE id = "K1" -> FlightEvent("LANDED", id, "HUB1", "SPK1", TimeAfter(now, -3),
                                  TimeAfter(now, -1),
                                  [first |-> 1, business |-> 2, premiumEconomy |-> 3,
                                   economy |-> 4])
      [] id = "K2" -> FlightEvent("CHECKED_IN", id, "HUB1", "SPK1", now,
                                  TimeAfter(now, 2),
                                  [first |-> 5, business |-> 6, premiumEconomy |-> 7,
                                   economy |-> 40])
      [] id = "K3" -> FlightEvent("SCHEDULED", id, "HUB1", "SPK1", TimeAfter(now, 24),
                                  TimeAfter(now, 26),
                                  [first |-> 0, business |-> 10, premiumEconomy |-> 0,
                                   economy |-> 90])
      [] id = "K4" -> FlightEvent("SCHEDULED", id, "SPK1", "HUB1", TimeAfter(now, 6),
                                  TimeAfter(now, 9),
                                  [first |-> 2, business |-> 0, premiumEconomy |-> 9,
                                   economy |-> 40])
      [] id = "K5" -> FlightEvent("SCHEDULED", id, "HUB1", "SPK1", TimeAfter(now, 30),
                                  TimeAfter(now, 33), PerClass(8))

ForecastCatalogue == {"K1", "K2", "K3", "K4", "K5"}

Weekdays(days) == [i \in 1..7 |-> (i - 1) \in days]

ForecastTemplates ==
    {<<>>,
     <<[departCode |-> "HUB1", arrivalCode |-> "SPK1", scheduledHour |-> 2,
        distanceKm |-> 30, weekdays |-> AllWeek],
       [departCode |-> "SPK1", arrivalCode |-> "HUB1", scheduledHour |-> 7,
        distanceKm |-> 30, weekdays |-> Weekdays({0, 6})],
       [departCode |-> "HUB1", arrivalCode |-> "SPK1", scheduledHour |-> 23,
        distanceKm |-> 30, weekdays |-> Weekdays({0, 1})],
       [departCode |-> "HUB1", arrivalCode |-> "SPK1", scheduledHour |-> 2,
        distanceKm |-> 30, weekdays |-> Weekdays({1})]>>}

InitForecast ==
    \E now \in ForecastTimes, ids \in SUBSET ForecastCatalogue,
       template \in ForecastTemplates :
        /\ airports = LedgerAirports
        /\ aircraftTypes = PlanAircraft
        /\ flightPlans = template
        /\ airportStocks = getInitialStocks(LedgerAirports)
        /\ inFlightKits = EmptyMap
        /\ processingKits = <<>>
        /\ totalPurchased = PerClass(0)
        /\ airportPerformance = NoPerformance
        /\ currentDay = now.day
        /\ currentHour = now.hour
        /\ knownFlights = [id \in ids |-> ForecastFlight(id, now)]
        /\ knownOrder = <<>>
        /\ loadedFlights = {}
        /\ flightsReadyToDepart = <<>>
        /\ pc = "forecast"
        /\ env = "none"
        /\ locals = NoLocals
        /\ last = [op |-> "init"]

ForecastDemand ==
    \E airportCode \in ForecastAirports, kitClass \in KitClasses,
       withinHours \in ForecastHorizons :
        /\ pc = "forecast"
        /\ pc' = "done"
        /\ last' = [op |-> "calculateDemandForAirport", airportCode |-> airportCode,
                    kitClass |-> kitClass, withinHours |-> withinHours,
                    demand |-> calculateDemandForAirport(flightPlans, knownFlights,
                                   airportCode, currentDay, currentHour, withinHours,
                                   kitClass)]
        /\ UNCHANGED <<refData, ledgerVars, totalPurchased, airportPerformance,
                       gameVars, env, locals>>

NextForecast == ForecastDemand

SpecForecast == InitForecast /\ [][NextForecast]_vars

\* the known departures the demand counts, and the template matches
CountedDepartures(airportCode, from, withinHours) ==
    {id \in DOMAIN knownFlights :
        /\ knownFlights[id].eventType \in {"SCHEDULED", "CHECKED_IN"}
        /\ knownFlights[id].originAirport = airportCode
        /\ AbsHour(knownFlights[id].departure) >= from
        /\ AbsHour(knownFlights[id].departure) <= from + withinHours}

TemplateMatches(airportCode, from, withinHours) ==
    {<<h, i>> \in (from .. (from + withinHours - 1)) \X (1 .. Len(flightPlans)) :
        /\ flightPlans[i].departCode = airportCode
        /\ flightPlans[i].scheduledHour = h % 24
        /\ flightPlans[i].weekdays[((h \div 24) % 7) + 1]}

\* C10: the demand of (airport, class, from, horizon) is the sum of the class's
\* passengers over the known SCHEDULED or CHECKED_IN departures from the
\* airport that depart in [from, from + horizon], plus the typical estimate of
\* the class once per (hour of the horizon, flight plan entry) that matches
\* airport, hour and weekday; with no such match it is the known sum alone.
C10_DemandIsKnownPlusTypical ==
    last.op = "calculateDemandForAirport" =>
        LET from == currentDay * 24 + currentHour
            counted == CountedDepartures(last.airportCode, from, last.withinHours)
            matches == TemplateMatches(last.airportCode, from, last.withinHours)
            knownSum == SumOver([id \in counted |->
                                    knownFlights[id].passengers[last.kitClass]], counted)
        IN  /\ last.demand = knownSum
                             + getTypicalDemandEstimate(last.kitClass) * Cardinality(matches)
            /\ matches = {} => last.demand = knownSum

\* a demand made of a departure at the very end of the window, a landed flight
\* that is not counted, and a flight plan entry matched on two days
C10_Witness ==
    /\ last.op = "calculateDemandForAirport"
    /\ last.airportCode = "HUB1"
    /\ last.withinHours = 24
    /\ {"K1", "K3"} \subseteq DOMAIN knownFlights
    /\ Cardinality(TemplateMatches("HUB1", currentDay * 24 + currentHour, 24)) >= 2
    /\ last.demand > 0

-----------------------------------------------------------------------------
(* Spec: runGame (index.ts) against an external system that announces,      *)
(* checks in and lands the flights of a small catalogue                     *)

TOTAL_DAYS == 30
HOURS_PER_DAY == 24

\* how many rounds before / after its departure hour a flight may first be sent
AnnounceEarly == 2
AnnounceLate == 1

GameAirports ==
    [HUB1 |-> Airport(TRUE, [first |-> 2500, business |-> 2500, premiumEconomy |-> 2500,
                             economy |-> 20000],
                      PerClass(6), PerClass(1000)),
     SPK1 |-> Airport(FALSE, PerClass(200),
                      [first |-> 3, business |-> 2, premiumEconomy |-> 4, economy |-> 5],
                      PerClass(60))]

GameTemplates ==
    <<[departCode |-> "HUB1", arrivalCode |-> "SPK1", scheduledHour |-> 3,
       distanceKm |-> 30, weekdays |-> AllWeek],
      [departCode |-> "SPK1", arrivalCode |-> "HUB1", scheduledHour |-> 19,
       distanceKm |-> 30, weekdays |-> AllWeek]>>

GameOrder == <<"G1", "G2", "G3">>
GameCatalogue == {GameOrder[i] : i \in 1..Len(GameOrder)}

GameFlight(id, eventType) ==
    CASE id = "G1" -> FlightEvent(eventType, id, "HUB1", "SPK1", Time(0, 3), Time(0, 5),
                                  PlanPassengers)
      [] id = "G2" -> FlightEvent(eventType, id, "SPK1", "HUB1", Time(29, 19), Time(29, 21),
                                  PerClass(4))
      [] id = "G3" -> FlightEvent(eventType, id, "HUB1", "SPK1", Time(29, 21), Time(29, 23),
                                  PlanPassengers)

Departure(id) == AbsHour(GameFlight(id, "SCHEDULED").departure)
Arrival(id) == AbsHour(GameFlight(id, "SCHEDULED").arrival)

\* what the external system may send for a flight in the response to round t:
\* env.phase is 0 before the flight is first sent, 1 once SCHEDULED, 2 once
\* CHECKED_IN, 3 once LANDED
CanEmit(id, t) ==
    \/ env.phase[id] = 0 /\ t >= Departure(id) - AnnounceEarly
                         /\ t <= Departure(id) + AnnounceLate
    \/ env.phase[id] = 1 /\ t >= Departure(id) - 1 /\ t < Arrival(id)
    \/ env.phase[id] \in {1, 2} /\ t = Arrival(id)

NextEventType(id, t) ==
    IF env.phase[id] = 0
    THEN (IF t < Departure(id) - 1 THEN "SCHEDULED" ELSE "CHECKED_IN")
    ELSE IF t >= Arrival(id) THEN "LANDED" ELSE "CHECKED_IN"

PhaseOf(eventType) ==
    CASE eventType = "SCHEDULED" -> 1
      [] eventType = "CHECKED_IN" -> 2
      [] eventType = "LANDED" -> 3

FlightUpdates(emit, t) ==
    LET ids == SelectSeq(GameOrder, LAMBDA id : id \in emit)
    IN  [i \in 1..Len(ids) |-> GameFlight(ids[i], NextEventType(ids[i], t))]

\* the penalties a response may carry
GamePenalties == {<<>>, <<Penalty("INVENTORY_EXCEEDS_CAPACITY", "SPK1")>>}

At(at, day, hour) == [at |-> at, day |-> day, hour |-> hour]

Init ==
    /\ airports = GameAirports
    /\ aircraftTypes = PlanAircraft
    /\ flightPlans = GameTemplates
    /\ airportStocks = getInitialStocks(GameAirports)
    /\ inFlightKits = EmptyMap
    /\ processingKits = <<>>
    /\ totalPurchased = PerClass(0)
    /\ airportPerformance = NoPerformance
    /\ currentDay = 0
    /\ currentHour = 0
    /\ knownFlights = EmptyMap
    /\ knownOrder = <<>>
    /\ loadedFlights = {}
    /\ flightsReadyToDepart = <<>>
    /\ pc = At("start", 0, 0)
    /\ env = [phase |-> [id \in GameCatalogue |-> 0], submitted |-> 0,
              autoEnded |-> FALSE, endCalls |-> 0]
    /\ locals = NoLocals
    /\ last = [op |-> "init"]

GameState ==
    [known |-> knownFlights, order |-> knownOrder, stocks |-> airportStocks,
     inflight |-> inFlightKits, processing |-> processingKits, airports |-> airports]

\* await client.startSession()
StartSession ==
    /\ pc.at = "start"
    /\ pc' = At("absorb", 0, 0)
    /\ UNCHANGED <<refData, ledgerVars, totalPurchased, airportPerformance, gameVars,
                   env, locals, last>>

\* client.startSession() throws: the catch block of runGame
StartSessionFails ==
    /\ pc.at = "start"
    /\ pc' = [pc EXCEPT !.at = "startFailed"]
    /\ UNCHANGED <<refData, ledgerVars, totalPurchased, airportPerformance, gameVars,
                   env, locals, last>>

Absorbed(G, at) ==
    /\ knownFlights' = G.known
    /\ knownOrder' = G.order
    /\ airportStocks' = G.stocks
    /\ inFlightKits' = G.inflight
    /\ processingKits' = G.processing
    /\ pc' = [pc EXCEPT !.at = at]
    /\ UNCHANGED <<refData, totalPurchased, airportPerformance, currentDay, currentHour,
                   loadedFlights, flightsReadyToDepart, env, locals, last>>

\* if (previousResponse) gameState.processFlightUpdates(previousResponse.flightUpdates)
ProcessPreviousResponse ==
    /\ pc.at = "absorb"
    /\ Absorbed(IF locals.previousResponse.present
                THEN processFlightUpdates(GameState, locals.previousResponse.flightUpdates)
                ELSE GameState,
                "setTime")

TimeSet(r) ==
    /\ currentDay' = pc.day
    /\ currentHour' = pc.hour
    /\ airportStocks' = r.stocks
    /\ processingKits' = r.processing
    /\ flightsReadyToDepart' =
           ReadyFlights(knownFlights, knownOrder, pc.day, pc.hour, loadedFlights)
    /\ pc' = [pc EXCEPT !.at = "loads"]
    /\ UNCHANGED <<refData, inFlightKits, totalPurchased, airportPerformance,
                   knownFlights, knownOrder, loadedFlights, env, locals, last>>

\* gameState.setTime(day, hour)
SetTime ==
    /\ pc.at = "setTime"
    /\ TimeSet(processReadyKits(airportStocks, processingKits, airports, pc.day, pc.hour))

LoadsCalculated(r) ==
    /\ airportStocks' = r.stocks
    /\ inFlightKits' = r.inflight
    /\ locals' = [locals EXCEPT !.flightLoads = r.loads]
    /\ pc' = [pc EXCEPT !.at = "purchase"]
    /\ UNCHANGED <<refData, processingKits, totalPurchased, airportPerformance, gameVars,
                   env, last>>

\* const flightLoads = gameState.calculateFlightLoads()
CalculateFlightLoads ==
    /\ pc.at = "loads"
    /\ LoadsCalculated(calculateFlightLoads(NowView, flightsReadyToDepart,
                                            currentDay, currentHour))

\* const purchaseOrder = gameState.calculatePurchaseOrder();
\* gameState.markFlightsAsLoaded(flightLoads.map(fl => fl.flightId)); the request
OrderCalculated(r) ==
    /\ totalPurchased' = r.purchased
    /\ locals' = [locals EXCEPT !.purchaseOrder = [any |-> r.any, order |-> r.order]]
    /\ loadedFlights' = loadedFlights \cup
           {locals.flightLoads[i].flightId : i \in 1..Len(locals.flightLoads)}
    /\ last' = [op |-> "request", loadedBefore |-> loadedFlights,
                request |-> [day |-> pc.day, hour |-> pc.hour,
                             flightLoads |-> locals.flightLoads,
                             kitPurchasingOrders |-> [any |-> r.any, order |-> r.order]]]
    /\ pc' = [pc EXCEPT !.at = "play"]
    /\ UNCHANGED <<refData, ledgerVars, airportPerformance, currentDay, currentHour,
                   knownFlights, knownOrder, flightsReadyToDepart, env>>

CalculatePurchaseOrder ==
    /\ pc.at = "purchase"
    /\ OrderCalculated(calculatePurchaseOrder(NowView, totalPurchased,
                                              currentDay, currentHour))

\* the loops with the last hour of each day left out
NextRoundShortDay ==
    IF pc.hour + 1 < HOURS_PER_DAY - 1 THEN At("absorb", pc.day, pc.hour + 1)
    ELSE IF pc.day + 1 < TOTAL_DAYS THEN At("absorb", pc.day + 1, 0)
    ELSE At("final", pc.day, pc.hour)

\* the position after round (day, hour) of the two nested loops
NextRound ==
    IF pc.hour + 1 < HOURS_PER_DAY THEN At("absorb", pc.day, pc.hour + 1)
    ELSE IF pc.day + 1 < TOTAL_DAYS THEN At("absorb", pc.day + 1, 0)
    ELSE At("final", pc.day, pc.hour)

\* the external system may end the session by itself after the final round
MayAutoEnd == IF NextRound.at = "final" THEN BOOLEAN ELSE {FALSE}

\* const response = await client.playRound(request); applyPurchasedKits;
\* lastResponse = response; previousResponse = response
PlayRound ==
    /\ pc.at = "play"
    /\ \E emit \in SUBSET {id \in GameCatalogue : CanEmit(id, pc.day * 24 + pc.hour)},
          penalties \in GamePenalties, autoEnded \in MayAutoEnd :
        /\ locals' = [locals EXCEPT
                         !.previousResponse =
                             [present |-> TRUE,
                              flightUpdates |-> FlightUpdates(emit, pc.day * 24 + pc.hour),
                              penalties |-> penalties],
                         !.lastResponse =
                             [present |-> TRUE,
                              flightUpdates |-> FlightUpdates(emit, pc.day * 24 + pc.hour),
                              penalties |-> penalties]]
        /\ env' = [env EXCEPT
                      !.phase = [id \in GameCatalogue |->
                          IF id \in emit
                          THEN PhaseOf(NextEventType(id, pc.day * 24 + pc.hour))
                          ELSE env.phase[id]],
                      !.submitted = @ + 1,
                      !.autoEnded = autoEnded]
    /\ airportStocks' = IF locals.purchaseOrder.any
                        THEN applyPurchasedKits(airportStocks, airports,
                                                locals.purchaseOrder.order)
                        ELSE airportStocks
    /\ pc' = NextRound
    /\ UNCHANGED <<refData, inFlightKits, processingKits, totalPurchased,
                   airportPerformance, gameVars, last>>

\* the same call with the order applied although the round trip failed
PlayRoundFailsOrderApplied ==
    /\ pc.at = "play"
    /\ env' = [env EXCEPT !.submitted = @ + 1]
    /\ airportStocks' = IF locals.purchaseOrder.any
                        THEN applyPurchasedKits(airportStocks, airports,
                                                locals.purchaseOrder.order)
                        ELSE airportStocks
    /\ pc' = [pc EXCEPT !.at = "roundFailed"]
    /\ UNCHANGED <<refData, inFlightKits, processingKits, totalPurchased,
                   airportPerformance, gameVars, locals, last>>

\* client.playRound(request) throws: the catch block of runGame
PlayRoundFails ==
    /\ pc.at = "play"
    /\ env' = [env EXCEPT !.submitted = @ + 1]
    /\ pc' = [pc EXCEPT !.at = "roundFailed"]
    /\ UNCHANGED <<refData, ledgerVars, totalPurchased, airportPerformance, gameVars,
                   locals, last>>

\* after the loops: the final round's events
ProcessFinalResponse ==
    /\ pc.at = "final"
    /\ Absorbed(IF locals.previousResponse.present
                THEN processFlightUpdates(GameState, locals.previousResponse.flightUpdates)
                ELSE GameState,
                "end")

\* const result = finalResult || lastResponse
ResultOfFinalOnly(finalResult, lastResponse) == finalResult
ResultOf(finalResult, lastResponse) ==
    IF finalResult.present THEN finalResult ELSE lastResponse

\* the response to /session/end
FinalResponses ==
    {[present |-> TRUE, flightUpdates |-> <<>>, penalties |-> <<>>],
     [present |-> TRUE, flightUpdates |-> <<>>,
      penalties |-> <<Penalty("END_OF_GAME_UNFULFILLED_FLIGHT_KITS", "")>>]}

\* client.endSession() returns the final response
EndSession ==
    /\ pc.at = "end"
    /\ ~env.autoEnded
    /\ \E finalResult \in FinalResponses :
        locals' = [locals EXCEPT !.result = ResultOf(finalResult, locals.lastResponse)]
    /\ env' = [env EXCEPT !.endCalls = @ + 1]
    /\ pc' = [pc EXCEPT !.at = "done"]
    /\ UNCHANGED <<refData, ledgerVars, totalPurchased, airportPerformance, gameVars,
                   last>>

\* client.endSession() gets 404 (the session is already ended) and returns null
EndSessionNotFound ==
    /\ pc.at = "end"
    /\ env.autoEnded
    /\ locals' = [locals EXCEPT !.result = ResultOf(NoResponse, locals.lastResponse)]
    /\ env' = [env EXCEPT !.endCalls = @ + 1]
    /\ pc' = [pc EXCEPT !.at = "done"]
    /\ UNCHANGED <<refData, ledgerVars, totalPurchased, airportPerformance, gameVars,
                   last>>

\* client.endSession() throws any other error: the catch block of runGame
EndSessionFails ==
    /\ pc.at = "end"
    /\ env' = [env EXCEPT !.endCalls = @ + 1]
    /\ pc' = [pc EXCEPT !.at = "endFailed"]
    /\ UNCHANGED <<refData, ledgerVars, totalPurchased, airportPerformance, gameVars,
                   locals, last>>

Next ==
    \/ StartSession
    \/ StartSessionFails
    \/ ProcessPreviousResponse
    \/ SetTime
    \/ CalculateFlightLoads
    \/ CalculatePurchaseOrder
    \/ PlayRound
    \/ PlayRoundFails
    \/ ProcessFinalResponse
    \/ EndSession
    \/ EndSessionNotFound
    \/ EndSessionFails

Spec == Init /\ [][Next]_vars

\* the departures the round at (day, hour) owes an answer: known as SCHEDULED
\* or CHECKED_IN, departure at or before the round, not answered before it
OwedAnswer(day, hour, answeredBefore) ==
    {id \in DOMAIN knownFlights :
        /\ knownFlights[id].eventType \in {"SCHEDULED", "CHECKED_IN"}
        /\ AbsHour(knownFlights[id].departure) <= day * 24 + hour
        /\ id \notin answeredBefore}

InPayload(id, request) ==
    \E i \in 1..Len(request.flightLoads) :
        /\ request.flightLoads[i].flightId = id
        /\ DOMAIN request.flightLoads[i].loadedKits = KitClasses
        /\ \A k \in KitClasses : request.flightLoads[i].loadedKits[k] \in Nat

\* C4: when the round's request is sent, every known SCHEDULED or CHECKED_IN
\* departure whose departure time is at or before the round and that no
\* earlier request answered has an entry in the request's flightLoads with a
\* load for each of the four classes, also when the departure was first
\* received after its departure hour
C4_DueDeparturesAnswered ==
    pc.at = "play" =>
        \A id \in OwedAnswer(pc.day, pc.hour, last.loadedBefore) :
            InPayload(id, last.request)

\* a round answers a departure it first learned of after the departure hour
C4_Witness ==
    /\ pc.at = "play"
    /\ \E id \in OwedAnswer(pc.day, pc.hour, last.loadedBefore) :
        /\ AbsHour(knownFlights[id].departure) < pc.day * 24 + pc.hour
        /\ InPayload(id, last.request)

\* every lifecycle update of the previous response is in the flight table, and
\* a landed flight is no longer in transit
LifecycleFolded ==
    \A i \in 1..Len(locals.previousResponse.flightUpdates) :
        LET event == locals.previousResponse.flightUpdates[i]
        IN  /\ Has(knownFlights, event.flightId)
            /\ knownFlights[event.flightId] = event
            /\ event.eventType = "LANDED" => ~Has(inFlightKits, event.flightId)

\* every airport a penalty of the previous response names has a risk profile
PenaltiesFolded ==
    \A i \in 1..Len(locals.previousResponse.penalties) :
        locals.previousResponse.penalties[i].airportCode # ""
            => Has(airportPerformance, locals.previousResponse.penalties[i].airportCode)

\* C13: when the loads and the order of a round are computed, the lifecycle
\* updates of the previous round's response are in the ledger and its
\* penalties are in the risk tracker; the response of the round itself does
\* not exist yet.
C13_DecisionsAfterPreviousOutcome ==
    pc.at \in {"loads", "purchase", "play"} =>
        /\ LifecycleFolded
        /\ PenaltiesFolded
        /\ pc.day * 24 + pc.hour = 0 => ~locals.previousResponse.present

\* a round is decided after a response that carried an update and a penalty
C13_Witness ==
    /\ pc.at = "play"
    /\ locals.previousResponse.flightUpdates # <<>>
    /\ locals.previousResponse.penalties # <<>>

\* the lifecycle half of the ordering on its own
LifecycleFoldedBeforeDecisions ==
    pc.at \in {"loads", "purchase", "play"} => LifecycleFolded

\* C15: when the round trip of a round fails the run aborts: the step into the
\* failure leaves the depot stock as it was (the failed round's order is not
\* applied), the failed round was the last payload sent and was sent once,
\* and no step follows the failure.
C15_FailedRoundAborts ==
    [][/\ pc.at # "roundFailed"
       /\ pc'.at = "roundFailed" =>
            /\ pc.at = "play"
            /\ airportStocks' = airportStocks
            /\ totalPurchased' = totalPurchased
            /\ env'.submitted = pc.day * 24 + pc.hour + 1
            /\ env.submitted = pc.day * 24 + pc.hour]_vars

\* a round whose request carried a purchase order has failed
C15_Witness ==
    /\ pc.at = "roundFailed"
    /\ locals.purchaseOrder.any
    /\ \E k \in KitClasses : locals.purchaseOrder.order[k] > 0

\* C16: a run that does not abort sends exactly 720 payloads, the n-th for
\* clock hour n - 1, from (0,0) to (29,23) in increasing order, and calls
\* endSession only after the last of them, once.
C16_AllRoundsThenEnd ==
    /\ TOTAL_DAYS * HOURS_PER_DAY = 720
    /\ pc.at \in {"absorb", "setTime", "loads", "purchase", "play"} =>
        /\ env.submitted = pc.day * 24 + pc.hour
        /\ pc.day \in 0..29 /\ pc.hour \in 0..23
    /\ pc.at = "play" => (last.request.day = pc.day /\ last.request.hour = pc.hour)
    /\ pc.at \in {"final", "end", "done", "endFailed"} => env.submitted = 720
    /\ env.endCalls > 0 => env.submitted = 720
    /\ env.endCalls <= 1
    /\ pc.at = "done" => env.endCalls = 1

\* the run has sent every round and ended the session
C16_Witness ==
    /\ pc.at = "done"
    /\ env.submitted = 720
    /\ env.endCalls = 1
    /\ last.request.day = 29 /\ last.request.hour = 23

\* C17: when endSession finds the session already ended by the external
\* system it returns no result, the run completes and the final result is
\* the last round's response; when the session is still open the final result
\* is the response to endSession; any other failure of endSession is raised
\* and the run does not complete.
C17_NotFoundIsNormalEnd ==
    [][pc.at = "end" =>
        /\ (env.autoEnded /\ pc'.at # "endFailed") =>
            /\ pc'.at = "done"
            /\ locals'.result = locals.lastResponse
            /\ locals'.result.present
        /\ (~env.autoEnded /\ pc'.at # "endFailed") =>
            /\ pc'.at = "done"
            /\ locals'.result \in FinalResponses
        /\ pc'.at = "endFailed" => locals'.result = NoResponse]_vars

\* the run completed although the external system had ended the session
C17_Witness ==
    /\ pc.at = "done"
    /\ env.autoEnded
    /\ locals.result = locals.lastResponse
    /\ locals.result.flightUpdates # <<>>

-----------------------------------------------------------------------------
(* SpecRisk: the risk tracker (adaptive.ts) fed one round of penalties at a  *)
(* time                                                                     *)

MaxRiskRounds == 5

\* the codes of the penalties the external system reports
OverflowCode == "INVENTORY_EXCEEDS_CAPACITY"
UnderFulfilmentCodes == {"END_OF_FLIGHT_UNFULFILLED"}
OtherCodes == {"NEGATIVE_INVENTORY", "FLIGHT_OVERLOAD"}

\* the penalties of one round: none, one, or two overflows at the same spoke
PenaltyBatches ==
    {<<>>, <<Penalty(OverflowCode, "SPK1"), Penalty(OverflowCode, "SPK1")>>}
    \cup {<<Penalty(code, airportCode)>> :
            code \in {OverflowCode} \cup UnderFulfilmentCodes \cup OtherCodes,
            airportCode \in {"SPK1", "SPK2", ""}}

\* the profiles after n under-fulfilment penalties recorded for SPK1
RECURSIVE AfterUnfulfilled(_)
AfterUnfulfilled(n) ==
    IF n = 0 THEN NoPerformance
    ELSE updateAirportPerformance(AfterUnfulfilled(n - 1),
                                  [day |-> 0, hour |-> 0, type |-> "FLIGHT_UNFULFILLED",
                                   airportCode |-> "SPK1"])

\* the tracker at the start: fresh, or after a long run of under-fulfilment
LongRun == 16
RiskProfiles == {NoPerformance, AfterUnfulfilled(LongRun)}

InitRisk ==
    /\ airports = LedgerAirports
    /\ aircraftTypes = PlanAircraft
    /\ flightPlans = <<>>
    /\ airportStocks = getInitialStocks(LedgerAirports)
    /\ inFlightKits = EmptyMap
    /\ processingKits = <<>>
    /\ totalPurchased = PerClass(0)
    /\ airportPerformance \in RiskProfiles
    /\ currentDay = 0
    /\ currentHour = 0
    /\ knownFlights = EmptyMap
    /\ knownOrder = <<>>
    /\ loadedFlights = {}
    /\ flightsReadyToDepart = <<>>
    /\ pc = "risk"
    /\ env = "none"
    /\ locals = NoLocals
    /\ last = [op |-> "init", n |-> 0]

\* adaptive.recordPenalties(response.penalties, day, hour) for the next round
RiskRecordPenalties ==
    /\ last.n < MaxRiskRounds
    /\ \E penalties \in PenaltyBatches :
        /\ airportPerformance' =
               recordPenalties(airportPerformance, penalties, currentDay, currentHour)
        /\ last' = [op |-> "recordPenalties", n |-> last.n + 1,
                    before |-> airportPerformance,
                    reported |-> {penalties[i].airportCode : i \in 1..Len(penalties)},
                    penalties |-> penalties]
    /\ currentHour' = currentHour + 1
    /\ UNCHANGED <<refData, ledgerVars, totalPurchased, currentDay, knownFlights,
                   knownOrder, loadedFlights, flightsReadyToDepart, pc, env, locals>>

NextRisk == RiskRecordPenalties

SpecRisk == InitRisk /\ [][NextRisk]_vars

\* C12: for a location that has a risk profile, a round that reports no
\* penalty for it leaves its risk score strictly lower than before the round,
\* and the decayed score stays above the floor without being clamped to it.
C12_QuietRoundDecays ==
    last.op = "recordPenalties" =>
        \A code \in DOMAIN last.before :
            code \notin last.reported =>
                /\ airportPerformance[code].riskScore < last.before[code].riskScore
                /\ airportPerformance[code].riskScore >= RiskFloor

\* a location with a profile goes through a round that reports nothing for it
C12_Witness ==
    /\ last.op = "recordPenalties"
    /\ \E code \in DOMAIN last.before :
        /\ code \notin last.reported
        /\ last.before[code].overflowCount >= 2

\* C30: after any sequence of recorded penalties (overflow, under-fulfilment,
\* other, in any order and number) the risk score of every location is within
\* [0, 1].
C30_RiskScoreInUnitInterval ==
    \A code \in DOMAIN airportPerformance :
        /\ airportPerformance[code].riskScore >= 0
        /\ airportPerformance[code].riskScore <= RiskScale

\* an overflow recorded for a location whose score was within one step of 1
C30_Witness ==
    /\ last.op = "recordPenalties"
    /\ \E code \in DOMAIN last.before :
           /\ last.before[code].riskScore + OverflowStep > RiskScale
           /\ airportPerformance[code].overflowCount > last.before[code].overflowCount


\* the last penalty of the round just recorded was of one of `codes` and named
\* the location
LastPenaltyFor(location, codes) ==
    /\ last.op = "recordPenalties"
    /\ last.penalties # <<>>
    /\ last.penalties[Len(last.penalties)].airportCode = location
    /\ last.penalties[Len(last.penalties)].code \in codes

\* the risk score of a location before the round just recorded; a location
\* without a profile gets one at the initial score
ScoreBefore(location) ==
    IF Has(last.before, location) THEN last.before[location].riskScore ELSE InitialRisk

\* C31: an under-fulfilment penalty lowers the risk score of its location but
\* never below the floor: right after the update it causes the score is >= 0.1.
C31_UnderFulfilmentKeepsFloor ==
    \A location \in DOMAIN airportPerformance :
        LastPenaltyFor(location, UnderFulfilmentCodes) =>
            /\ airportPerformance[location].riskScore <= ScoreBefore(location)
            /\ airportPerformance[location].riskScore >= RiskFloor

\* an under-fulfilment penalty recorded for a location whose score was within
\* one step of the floor
C31_Witness ==
    \E location \in DOMAIN airportPerformance :
        /\ LastPenaltyFor(location, UnderFulfilmentCodes)
        /\ ScoreBefore(location) - UnfulfilledStep < RiskFloor

\* the counters of a location before the round just recorded
CountersBefore(location) ==
    IF Has(last.before, location)
    THEN <<last.before[location].overflowCount, last.before[location].unfulfilledCount>>
    ELSE <<0, 0>>

\* C32: a penalty whose code is neither the overflow code nor an
\* under-fulfilment code is classified as 'other': it increments neither the
\* overflow nor the under-fulfilment counter of any location and changes a
\* risk score by decay only.
C32_OtherPenaltyDecaysOnly ==
    (/\ last.op = "recordPenalties"
     /\ \A i \in 1..Len(last.penalties) : last.penalties[i].code \in OtherCodes)
    => \A location \in DOMAIN airportPerformance :
           /\ <<airportPerformance[location].overflowCount,
                airportPerformance[location].unfulfilledCount>>
                  = CountersBefore(location)
           /\ airportPerformance[location].riskScore
                  \in {ScoreBefore(location), Decay(ScoreBefore(location))}

\* a penalty of a code other than overflow, under-fulfilment and negative
\* inventory recorded for a location that has a profile
C32_Witness ==
    /\ last.op = "recordPenalties"
    /\ \E location \in DOMAIN last.before :
           /\ LastPenaltyFor(location, OtherCodes \ {"NEGATIVE_INVENTORY"})
           /\ last.before[location].overflowCount > 0


-----------------------------------------------------------------------------
(* SpecBuffer: getBufferPercent asked, with the same arguments, of two       *)
(* trackers that hold different risk profiles                               *)

\* risk scores in 1/RiskScale; -1 stands for a location without a profile
BufferRisks == {-1, 99, 500, 700, 701, 850, 990}
\* base fractions in 1/BufferScale: those the load planner passes and some
\* outside the clamp range
BufferBases == {4000, 5000, 5010, 7000, 8000, 8500, 9500, 9600, 10000}
BufferLocations == {"SPK1", "SPK2"}

ProfileAt(riskScore) ==
    IF riskScore < 0 THEN NoPerformance
    ELSE [SPK1 |-> [overflowCount |-> 0, unfulfilledCount |-> 0, lastOverflowDay |-> -1,
                    riskScore |-> riskScore]]

InitBuffer ==
    \E risk \in BufferRisks, other \in BufferRisks :
        /\ airports = LedgerAirports
        /\ aircraftTypes = PlanAircraft
        /\ flightPlans = <<>>
        /\ airportStocks = getInitialStocks(LedgerAirports)
        /\ inFlightKits = EmptyMap
        /\ processingKits = <<>>
        /\ totalPurchased = PerClass(0)
        /\ airportPerformance = ProfileAt(risk)
        /\ currentDay = 0
        /\ currentHour = 0
        /\ knownFlights = EmptyMap
        /\ knownOrder = <<>>
        /\ loadedFlights = {}
        /\ flightsReadyToDepart = <<>>
        /\ pc = "buffer"
        /\ env = ProfileAt(other)
        /\ locals = NoLocals
        /\ last = [op |-> "init"]

BufferAsk ==
    \E location \in BufferLocations, kitClass \in {"first", "economy"},
       baseBuffer \in BufferBases :
        /\ pc = "buffer"
        /\ pc' = "done"
        /\ last' = [op |-> "getBufferPercent", location |-> location,
                    kitClass |-> kitClass, baseBuffer |-> baseBuffer,
                    buffer |-> getBufferPercent(airportPerformance, location, kitClass,
                                                baseBuffer),
                    otherBuffer |-> getBufferPercent(env, location, kitClass,
                                                     baseBuffer)]
        /\ UNCHANGED <<refData, ledgerVars, totalPurchased, airportPerformance,
                       gameVars, env, locals>>

NextBuffer == BufferAsk

SpecBuffer == InitBuffer /\ [][NextBuffer]_vars

\* the base fraction brought into the clamp range
ClampedBase(baseBuffer) ==
    IF baseBuffer < BufferFloor THEN BufferFloor
    ELSE IF baseBuffer > BufferCeiling THEN BufferCeiling ELSE baseBuffer

\* the risk score a tracker holds for a location, 0 when it has no profile
RiskOf(perf, location) == IF Has(perf, location) THEN perf[location].riskScore ELSE 0

\* C33: the buffer fraction always lies in [0.5, 0.95]; it is clamp(base) when
\* the location has no risk profile or its risk is at most the threshold 0.7;
\* and it is non-increasing in the risk score of the location.
C33_BufferFractionClampedAndMonotone ==
    last.op = "getBufferPercent" =>
        /\ last.buffer >= BufferFloor /\ last.buffer <= BufferCeiling
        /\ (~Has(airportPerformance, last.location)
            \/ RiskOf(airportPerformance, last.location) <= RiskThreshold)
               => last.buffer = ClampedBase(last.baseBuffer)
        /\ RiskOf(airportPerformance, last.location) <= RiskOf(env, last.location)
               => last.buffer >= last.otherBuffer

\* a risk above the threshold lowers the fraction inside the range, and the
\* higher risk of the other tracker lowers it further
C33_Witness ==
    /\ last.op = "getBufferPercent"
    /\ RiskOf(airportPerformance, last.location) > RiskThreshold
    /\ RiskOf(env, last.location) > RiskOf(airportPerformance, last.location)
    /\ last.buffer < ClampedBase(last.baseBuffer)
    /\ last.otherBuffer < last.buffer
    /\ last.otherBuffer > BufferFloor


-----------------------------------------------------------------------------
(* SpecFactor: the passenger-demand target of one flight, computed on two   *)
(* routes that differ only in their distance                                *)

\* the destination: a spoke of capacity 200 per class, or an airport the
\* loader never read
FactorDestinations == {"SPK1", "SPK9"}
\* economy stock of the spoke: 0%, 50%, 65%, 85% and 100% of its capacity
FactorStocks == {0, 100, 130, 170, 200}
\* distance of the route in km; 0 stands for a route without a flight plan
FactorDistances == {0, 10, 30, 50, 3000}
FactorPassengers == {0, 7, 30, 33}

FactorPlans(destination, distanceKm) ==
    IF distanceKm = 0 THEN <<>>
    ELSE <<[departCode |-> "HUB1", arrivalCode |-> destination, scheduledHour |-> 8,
            distanceKm |-> distanceKm, weekdays |-> AllWeek]>>

InitFactor ==
    \E destination \in FactorDestinations, stock \in FactorStocks,
       distanceKm \in FactorDistances, other \in FactorDistances,
       passengers \in FactorPassengers :
        /\ airports = PlanAirports(PerClass(600), PerClass(stock))
        /\ aircraftTypes = PlanAircraft
        /\ flightPlans = FactorPlans(destination, distanceKm)
        /\ airportStocks = getInitialStocks(PlanAirports(PerClass(600), PerClass(stock)))
        /\ inFlightKits = EmptyMap
        /\ processingKits = <<>>
        /\ totalPurchased = PerClass(0)
        /\ airportPerformance = NoPerformance
        /\ currentDay = 5
        /\ currentHour = 8
        /\ knownFlights =
               [F1 |-> FlightEvent("CHECKED_IN", "F1", "HUB1", destination,
                                   Time(5, 8), Time(5, 10), PerClass(passengers))]
        /\ knownOrder = <<"F1">>
        /\ loadedFlights = {}
        /\ flightsReadyToDepart = <<>>
        /\ pc = "factor"
        /\ env = FactorPlans(destination, other)
        /\ locals = NoLocals
        /\ last = [op |-> "init"]

\* penaltyPerKit and totalCost of the route of a flight, as
\* calculateEconomyLoadFactorForFlight computes them
RouteRatio(S, flight) ==
    LET distance == getFlightDistance(S.plans, flight.originAirport,
                                      flight.destinationAirport)
        loadingCost == IF Has(S.airports, flight.originAirport)
                       THEN S.airports[flight.originAirport].loadingCost["economy"]
                       ELSE DefaultLoadingCost
        fuelRate == IF Has(S.aircraft, flight.aircraftType)
                    THEN S.aircraft[flight.aircraftType].costPerKgPerKm
                    ELSE DefaultFuelRate
        processingCost == IF Has(S.airports, flight.destinationAirport)
                          THEN S.airports[flight.destinationAirport].processingCost["economy"]
                          ELSE DefaultProcessingCost
    IN  [num |-> 3000 * distance,
         den |-> loadingCost + distance * fuelRate * 3 + processingCost]

\* the first lines of calculateKitsToLoad: the load factor of the class and
\* the demand it gives
FactorAsk ==
    \E kitClass \in KitClasses :
        LET flight == knownFlights["F1"]
            S == NowView
            T == [NowView EXCEPT !.plans = env]
        IN  /\ pc = "factor"
            /\ pc' = "done"
            /\ last' = [op |-> "calculateKitsToLoad", kitClass |-> kitClass,
                        passengers |-> flight.passengers[kitClass],
                        demand |-> Demand(S, flight, kitClass),
                        factor |-> IF kitClass = "economy"
                                   THEN calculateEconomyLoadFactorForFlight(S, flight)
                                   ELSE [num |-> 1, den |-> 1],
                        otherFactor |-> IF kitClass = "economy"
                                        THEN calculateEconomyLoadFactorForFlight(T, flight)
                                        ELSE [num |-> 1, den |-> 1],
                        ratio |-> RouteRatio(S, flight),
                        otherRatio |-> RouteRatio(T, flight)]
            /\ UNCHANGED <<refData, ledgerVars, totalPurchased, airportPerformance,
                           gameVars, env, locals>>

NextFactor == FactorAsk

SpecFactor == InitFactor /\ [][NextFactor]_vars

\* a/b <= c/d for a, c >= 0 and b, d > 0, by comparing the integer parts and
\* then the reciprocals of the remainders
RECURSIVE FracLeq(_, _, _, _)
FracLeq(a, b, c, d) ==
    IF a \div b # c \div d THEN a \div b < c \div d
    ELSE IF a % b = 0 THEN TRUE
    ELSE IF c % d = 0 THEN FALSE
    ELSE FracLeq(d, c % d, b, a % b)

\* the lowest load factor of the economy class: Math.max(0.50, ...)
FactorFloor == [num |-> 1, den |-> 2]

\* C34: for economy the demand target is floor(passengers * f) with f below
\* 1.0, at least the floor 0.5, and not lower on a route whose ratio of
\* under-fulfilment penalty to transport cost per kit is higher; for the three
\* premium classes the target is the passenger count.
C34_LoadFactorBetweenFloorAndOne ==
    last.op = "calculateKitsToLoad" =>
        IF last.kitClass = "economy"
        THEN /\ last.demand = Q((last.passengers * last.factor.num) \div last.factor.den)
             /\ last.factor.num < last.factor.den
             /\ FracLeq(FactorFloor.num, FactorFloor.den, last.factor.num, last.factor.den)
             /\ FracLeq(last.ratio.num, last.ratio.den,
                        last.otherRatio.num, last.otherRatio.den)
                    => FracLeq(last.factor.num, last.factor.den,
                               last.otherFactor.num, last.otherFactor.den)
        ELSE last.demand = Q(last.passengers)

\* the economy target of a flight with passengers, on the route of the lower
\* ratio of two routes with different ratios
C34_Witness ==
    /\ last.op = "calculateKitsToLoad"
    /\ last.kitClass = "economy"
    /\ last.passengers > 0
    /\ ~FracLeq(last.otherRatio.num, last.otherRatio.den, last.ratio.num, last.ratio.den)


-----------------------------------------------------------------------------
(* SpecRounds: a few rounds of runGame's loop body (processFlightUpdates,    *)
(* setTime, calculateFlightLoads, markFlightsAsLoaded) against an external  *)
(* system that may send any update of a flight in any round                 *)

RoundsDay == 5
RoundsLastHour == 3

\* R1 flies a known aircraft; R2 flies an aircraft type the loader never read
RoundsIds == {"R1", "R2"}
\* the departure hour an update may carry: as announced, or delayed
RoundsDepartures == {1, 3}

RoundsFlight(id, eventType, departureHour) ==
    [FlightEvent(eventType, id, "HUB1", "SPK1", Time(RoundsDay, departureHour),
                 Time(RoundsDay, departureHour + 1), PlanPassengers)
        EXCEPT !.aircraftType = IF id = "R1" THEN "A320" ELSE "B777"]

\* the flightUpdates of one response: none, or one event
RoundsUpdates ==
    {<<>>}
    \cup {<<RoundsFlight("R1", eventType, h)>> :
             eventType \in {"CHECKED_IN", "LANDED"}, h \in RoundsDepartures}
    \cup {<<RoundsFlight("R2", "CHECKED_IN", 1)>>}

\* the spoke holds 120 kits of each class and has room for 150
RoundsAirports ==
    [PlanAirports(PerClass(600), PerClass(120)) EXCEPT
        !["SPK1"].capacity = PerClass(150)]

\* last.sent[id]: the payloads that held a load of id; last.taken[id]: the
\* rounds in which kits of id were deducted from its origin; last.known: the
\* ids loaded with stock and aircraft data at hand; last.completed: the ids a
\* LANDED event was absorbed for
InitRounds ==
    /\ airports = RoundsAirports
    /\ aircraftTypes = PlanAircraft
    /\ flightPlans = <<>>
    /\ airportStocks = getInitialStocks(RoundsAirports)
    /\ inFlightKits = EmptyMap
    /\ processingKits = <<>>
    /\ totalPurchased = PerClass(0)
    /\ airportPerformance = NoPerformance
    /\ currentDay = RoundsDay
    /\ currentHour = 0
    /\ knownFlights = EmptyMap
    /\ knownOrder = <<>>
    /\ loadedFlights = {}
    /\ flightsReadyToDepart = <<>>
    /\ pc = "absorb"
    /\ env = [hour |-> 0]
    /\ locals = NoLocals
    /\ last = [op |-> "init", sent |-> [id \in RoundsIds |-> 0],
               taken |-> [id \in RoundsIds |-> 0], known |-> {}, completed |-> {},
               reloaded |-> {}]

\* gameState.processFlightUpdates(previousResponse.flightUpdates)
RoundsAbsorbed(G, updates) ==
    /\ pc = "absorb"
    /\ knownFlights' = G.known
    /\ knownOrder' = G.order
    /\ airportStocks' = G.stocks
    /\ inFlightKits' = G.inflight
    /\ processingKits' = G.processing
    /\ pc' = "setTime"
    /\ last' = [last EXCEPT
                   !.op = "processFlightUpdates",
                   !.completed = @ \cup {updates[i].flightId :
                                            i \in {j \in 1..Len(updates) :
                                                      updates[j].eventType = "LANDED"}}]
    /\ UNCHANGED <<refData, totalPurchased, airportPerformance, currentDay, currentHour,
                   loadedFlights, flightsReadyToDepart, env, locals>>

RoundsProcessFlightUpdates ==
    \E updates \in RoundsUpdates :
        RoundsAbsorbed(processFlightUpdates(GameState, updates), updates)

\* gameState.setTime(day, hour)
RoundsSetTime ==
    LET r == processReadyKits(airportStocks, processingKits, airports, RoundsDay, env.hour)
    IN  /\ pc = "setTime"
        /\ currentHour' = env.hour
        /\ airportStocks' = r.stocks
        /\ processingKits' = r.processing
        /\ flightsReadyToDepart' =
               ReadyFlights(knownFlights, knownOrder, RoundsDay, env.hour, loadedFlights)
        /\ pc' = "loads"
        /\ last' = [last EXCEPT !.op = "setTime"]
        /\ UNCHANGED <<refData, inFlightKits, totalPurchased, airportPerformance,
                       currentDay, knownFlights, knownOrder, loadedFlights, env, locals>>

\* the flight ids of the loads of a payload
PayloadIds(loads) == {loads[i].flightId : i \in 1..Len(loads)}

\* calculateFlightLoads, markFlightsAsLoaded and the request of the round;
\* then the next iteration of the loop
RoundsLoadsApplied(r) ==
    /\ pc = "loads"
    /\ airportStocks' = r.stocks
    /\ inFlightKits' = r.inflight
    /\ loadedFlights' = loadedFlights \cup PayloadIds(r.loads)
    /\ locals' = [locals EXCEPT !.flightLoads = r.loads]
    /\ env' = [hour |-> env.hour + 1]
    /\ pc' = IF env.hour < RoundsLastHour THEN "absorb" ELSE "done"
    /\ last' = [op |-> "request",
                sent |-> [id \in RoundsIds |->
                             last.sent[id]
                             + Cardinality({i \in 1..Len(r.loads) :
                                               r.loads[i].flightId = id})],
                taken |-> [id \in RoundsIds |->
                              last.taken[id]
                              + Cardinality({i \in 1..Len(r.loads) :
                                  /\ r.loads[i].flightId = id
                                  /\ \E k \in KitClasses : r.loads[i].loadedKits[k] > 0})],
                known |-> last.known \cup
                             {id \in PayloadIds(r.loads) :
                                 /\ Has(airportStocks, knownFlights[id].originAirport)
                                 /\ Has(aircraftTypes, knownFlights[id].aircraftType)},
                completed |-> last.completed,
                reloaded |-> last.reloaded \cup (PayloadIds(r.loads) \cap last.completed)]
    /\ UNCHANGED <<refData, processingKits, totalPurchased, airportPerformance,
                   currentDay, currentHour, knownFlights, knownOrder,
                   flightsReadyToDepart>>

RoundsCalculateFlightLoads ==
    RoundsLoadsApplied(calculateFlightLoads(NowView, flightsReadyToDepart,
                                            currentDay, currentHour))

NextRounds == RoundsProcessFlightUpdates \/ RoundsSetTime \/ RoundsCalculateFlightLoads

SpecRounds == InitRounds /\ [][NextRounds]_vars

\* C35: at every point the in-transit batches are exactly the departures that
\* were loaded with stock and aircraft data at hand and have not been reported
\* LANDED: none for a departure never loaded, none left after a landing.
C35_BatchesAreLoadedNotLanded ==
    DOMAIN inFlightKits = last.known \ last.completed

\* one departure is in transit after its load, another was answered without
\* reference data and has no batch
C35_Witness ==
    /\ last.op = "request"
    /\ "R1" \in DOMAIN inFlightKits
    /\ "R2" \in loadedFlights
    /\ "R2" \notin DOMAIN inFlightKits

\* C36: over the rounds each departure id is in at most one payload and has
\* kits deducted from its origin at most once, whatever updates were received
\* for it.
C36_AnsweredAndDeductedOnce ==
    \A id \in RoundsIds : last.sent[id] <= 1 /\ last.taken[id] <= 1

\* a departure that was loaded, then received an update with a later
\* departure hour before any landing, and that hour has been played
C36_Witness ==
    /\ last.op = "request"
    /\ "R1" \in loadedFlights
    /\ "R1" \notin last.completed
    /\ knownFlights["R1"].departure.hour = 3
    /\ currentHour = 3
    /\ last.sent["R1"] > 0


\* a quantity that is a whole number of kits
IsWhole(amount) == amount % Unit = 0

\* C38: every load of a payload, and every stock and in-transit quantity after
\* it, is a whole number of kits, also when the room left at the destination
\* (capacity * buffer fraction - stock - in transit) is what limits the load.
C38_QuantitiesAreWhole ==
    /\ \A i \in 1..Len(locals.flightLoads), k \in KitClasses :
           IsWhole(locals.flightLoads[i].loadedKits[k])
    /\ \A code \in DOMAIN airportStocks, k \in KitClasses :
           IsWhole(airportStocks[code][k])
    /\ \A id \in DOMAIN inFlightKits, k \in KitClasses :
           IsWhole(inFlightKits[id].kits[k])

\* a load of business kits that is lower than the passengers, the depot stock
\* and the aircraft allow: the room left at the spoke limited it
C38_Witness ==
    /\ last.op = "request"
    /\ \E i \in 1..Len(locals.flightLoads) :
           /\ locals.flightLoads[i].flightId = "R1"
           /\ locals.flightLoads[i].loadedKits["business"] > 0
           /\ locals.flightLoads[i].loadedKits["business"]
                  < Q(PlanPassengers["business"])

-----------------------------------------------------------------------------
(* SpecControl: the control server's POST /api/game/start handler and the   *)
(* runs of runGame it starts, interleaved at the awaits of runGame          *)

MaxStartRequests == 5

\* pc[r] is the await run r is suspended at: "none" before it is started,
\* "settled" once the promise of runGame has resolved or rejected
ControlRuns == 1..MaxStartRequests

ActiveRuns(position) == {r \in DOMAIN position : position[r] \notin {"none", "settled"}}

InitControl ==
    /\ airports = EmptyMap
    /\ aircraftTypes = EmptyMap
    /\ flightPlans = <<>>
    /\ airportStocks = EmptyMap
    /\ inFlightKits = EmptyMap
    /\ processingKits = <<>>
    /\ totalPurchased = PerClass(0)
    /\ airportPerformance = NoPerformance
    /\ currentDay = 0
    /\ currentHour = 0
    /\ knownFlights = EmptyMap
    /\ knownOrder = <<>>
    /\ loadedFlights = {}
    /\ flightsReadyToDepart = <<>>
    /\ pc = [r \in ControlRuns |-> "none"]
    /\ env = [isGameRunning |-> FALSE, isGameComplete |-> FALSE,
              isGameStarting |-> FALSE, requests |-> 0]
    /\ locals = NoLocals
    /\ last = [op |-> "init"]

ControlFrame ==
    UNCHANGED <<refData, ledgerVars, totalPurchased, airportPerformance, gameVars,
                locals>>

\* the handler answers 400 without looking at isGameStarting
BusyRunningOnly(control) == control.isGameRunning

\* if (isGameStarting) ... 400; if (isGameRunning) ... 400
Busy(control) == control.isGameStarting \/ control.isGameRunning

\* POST /api/game/start: the whole handler, with runGame run up to its first
\* await (startEvalPlatform) when the request is accepted
ControlStartRequest ==
    /\ env.requests < MaxStartRequests
    /\ IF Busy(env)
       THEN /\ env' = [env EXCEPT !.requests = @ + 1]
            /\ pc' = pc
            /\ last' = [op |-> "start", status |-> 400, active |-> ActiveRuns(pc),
                        started |-> FALSE]
       ELSE LET r == CHOOSE n \in ControlRuns :
                         pc[n] = "none" /\ \A m \in 1..(n - 1) : pc[m] # "none"
            IN  /\ env' = [env EXCEPT !.requests = @ + 1, !.isGameStarting = TRUE]
                /\ pc' = [pc EXCEPT ![r] = "startEvalPlatform"]
                /\ last' = [op |-> "start", status |-> 200, active |-> ActiveRuns(pc),
                            started |-> TRUE]
    /\ ControlFrame

\* what .finally(() => { isGameStarting = false }) does when runGame settles
Settled(control) == [control EXCEPT !.isGameStarting = FALSE]

\* await startEvalPlatform() returns; the 2 s delay is awaited
ControlPlatformStarted ==
    \E r \in ControlRuns :
        /\ pc[r] = "startEvalPlatform"
        /\ pc' = [pc EXCEPT ![r] = "delay"]
        /\ last' = [op |-> "platformStarted"]
        /\ UNCHANGED env
        /\ ControlFrame

\* await startEvalPlatform() throws: runGame rethrows outside its try block
ControlPlatformFails ==
    \E r \in ControlRuns :
        /\ pc[r] = "startEvalPlatform"
        /\ pc' = [pc EXCEPT ![r] = "settled"]
        /\ env' = Settled(env)
        /\ last' = [op |-> "platformFailed"]
        /\ ControlFrame

\* after the delay: setGameState, clearState, then await client.startSession()
ControlDelayOver ==
    \E r \in ControlRuns :
        /\ pc[r] = "delay"
        /\ pc' = [pc EXCEPT ![r] = "startSession"]
        /\ env' = [env EXCEPT !.isGameRunning = FALSE, !.isGameComplete = FALSE]
        /\ last' = [op |-> "clearState"]
        /\ ControlFrame

\* startSession returns: setGameRunning(true), then the rounds of the loop
ControlSessionStarted ==
    \E r \in ControlRuns :
        /\ pc[r] = "startSession"
        /\ pc' = [pc EXCEPT ![r] = "playRound"]
        /\ env' = [env EXCEPT !.isGameRunning = TRUE]
        /\ last' = [op |-> "sessionStarted"]
        /\ ControlFrame

\* the last playRound returns: await client.endSession()
ControlRoundsPlayed ==
    \E r \in ControlRuns :
        /\ pc[r] = "playRound"
        /\ pc' = [pc EXCEPT ![r] = "endSession"]
        /\ last' = [op |-> "roundsPlayed"]
        /\ UNCHANGED env
        /\ ControlFrame

\* endSession returns: setGameRunning(false), setGameComplete(true); then the
\* finally block awaits stopEvalPlatform()
ControlSessionEnded ==
    \E r \in ControlRuns :
        /\ pc[r] = "endSession"
        /\ pc' = [pc EXCEPT ![r] = "stopEvalPlatform"]
        /\ env' = [env EXCEPT !.isGameRunning = FALSE, !.isGameComplete = TRUE]
        /\ last' = [op |-> "sessionEnded"]
        /\ ControlFrame

\* startSession, playRound or endSession throws: the catch block calls
\* setGameRunning(false); then the finally block awaits stopEvalPlatform()
ControlRunFails ==
    \E r \in ControlRuns :
        /\ pc[r] \in {"startSession", "playRound", "endSession"}
        /\ pc' = [pc EXCEPT ![r] = "stopEvalPlatform"]
        /\ env' = [env EXCEPT !.isGameRunning = FALSE]
        /\ last' = [op |-> "runFailed"]
        /\ ControlFrame

\* stopEvalPlatform returns (setGameComplete(false) and runGame resolves) or
\* throws (runGame rejects); either way the promise settles
ControlPlatformStopped ==
    \E r \in ControlRuns, stopped \in BOOLEAN :
        /\ pc[r] = "stopEvalPlatform"
        /\ pc' = [pc EXCEPT ![r] = "settled"]
        /\ env' = Settled(IF stopped THEN [env EXCEPT !.isGameComplete = FALSE] ELSE env)
        /\ last' = [op |-> "platformStopped", stopped |-> stopped]
        /\ ControlFrame

NextControl ==
    \/ ControlStartRequest
    \/ ControlPlatformStarted
    \/ ControlPlatformFails
    \/ ControlDelayOver
    \/ ControlSessionStarted
    \/ ControlRoundsPlayed
    \/ ControlSessionEnded
    \/ ControlRunFails
    \/ ControlPlatformStopped

SpecControl == InitControl /\ [][NextControl]_vars

\* C39: however start requests interleave with the runs, at most one run of
\* runGame is unsettled at a time; a start request received while a run is
\* unsettled is answered with an error and starts no run; a start request
\* received when no run is unsettled (none yet, or the previous one finished
\* or failed) starts one.
C39_AtMostOneRun ==
    /\ Cardinality(ActiveRuns(pc)) <= 1
    /\ last.op = "start" =>
           IF last.active # {}
           THEN last.status = 400 /\ ~last.started /\ ActiveRuns(pc) = last.active
           ELSE last.status = 200 /\ last.started /\ Cardinality(ActiveRuns(pc)) = 1

\* a run was started after an earlier run had settled and after a request
\* had been refused
C39_Witness ==
    /\ last.op = "start"
    /\ last.started
    /\ \E r \in ControlRuns : pc[r] = "settled"
    /\ env.requests > Cardinality({r \in ControlRuns : pc[r] # "none"})


-----------------------------------------------------------------------------
(* SpecLifecycle: processFlightUpdates fed the flight updates of successive  *)
(* responses, in whatever order the external system delivers them           *)

MaxLifecycleRounds == 3

LifecycleFlight(id, eventType) ==
    FlightEvent(eventType, id, "HUB1", "SPK1", Time(0, 2), Time(0, 4), PlanPassengers)

LifecycleEvents ==
    {LifecycleFlight(id, eventType) :
        id \in {"L1", "L2"}, eventType \in {"SCHEDULED", "CHECKED_IN", "LANDED"}}

\* the flightUpdates of one response: one event, or two for different flights
LifecycleUpdates ==
    {<<e>> : e \in LifecycleEvents}
    \cup {<<e1, e2>> : e1 \in {e \in LifecycleEvents : e.flightId = "L1"},
                       e2 \in {e \in LifecycleEvents : e.flightId = "L2"}}

InitLifecycle ==
    /\ airports = LedgerAirports
    /\ aircraftTypes = PlanAircraft
    /\ flightPlans = <<>>
    /\ airportStocks = getInitialStocks(LedgerAirports)
    /\ inFlightKits = trackInFlightKits(EmptyMap, "L1", "SPK1", PerClass(Q(5)), 0, 4)
    /\ processingKits = <<>>
    /\ totalPurchased = PerClass(0)
    /\ airportPerformance = NoPerformance
    /\ currentDay = 0
    /\ currentHour = 0
    /\ knownFlights = EmptyMap
    /\ knownOrder = <<>>
    /\ loadedFlights = {"L1"}
    /\ flightsReadyToDepart = <<>>
    /\ pc = "absorb"
    /\ env = "none"
    /\ locals = NoLocals
    /\ last = [op |-> "init", n |-> 0]

LifecycleAbsorbed(G, updates) ==
    /\ knownFlights' = G.known
    /\ knownOrder' = G.order
    /\ airportStocks' = G.stocks
    /\ inFlightKits' = G.inflight
    /\ processingKits' = G.processing
    /\ last' = [op |-> "processFlightUpdates", n |-> last.n + 1,
                before |-> knownFlights,
                updated |-> {updates[i].flightId : i \in 1..Len(updates)}]
    /\ UNCHANGED <<refData, totalPurchased, airportPerformance, currentDay, currentHour,
                   loadedFlights, flightsReadyToDepart, pc, env, locals>>

\* gameState.processFlightUpdates(previousResponse.flightUpdates)
LifecycleProcessFlightUpdates ==
    /\ last.n < MaxLifecycleRounds
    /\ \E updates \in LifecycleUpdates :
        LifecycleAbsorbed(processFlightUpdates(GameState, updates), updates)

NextLifecycle == LifecycleProcessFlightUpdates

SpecLifecycle == InitLifecycle /\ [][NextLifecycle]_vars

\* C18: whatever updates are absorbed, a departure recorded as LANDED is not
\* changed by a later update and a CHECKED_IN departure does not go back to
\* SCHEDULED: the recorded state only moves forward.
C18_LifecycleOnlyForward ==
    last.op = "processFlightUpdates" =>
        \A id \in DOMAIN last.before :
            /\ PhaseOf(knownFlights[id].eventType) >= PhaseOf(last.before[id].eventType)
            /\ last.before[id].eventType = "LANDED" => knownFlights[id] = last.before[id]

\* an update was absorbed for a departure already recorded as LANDED
C18_Witness ==
    /\ last.op = "processFlightUpdates"
    /\ \E id \in DOMAIN last.before :
        /\ last.before[id].eventType = "LANDED"
        /\ id \in last.updated

====
